---- MODULE Spec2Model ----
(***************************************************************************)
(* A model of the telegram_uid_scraper fetch-filter-distribute pipeline:   *)
(* the filter engine (filters.py), the scraper's own filter and statistics *)
(* (scraper.py), the retrying request engine of both engines, and the      *)
(* auto-adder (auto_adder.py).                                             *)
(*                                                                         *)
(* Python's cooperative scheduling is modelled exactly: one action is the  *)
(* code a coroutine runs between two suspension points (an await that      *)
(* really suspends, or a yield of the async generator).                    *)
(***************************************************************************)
EXTENDS Integers, Sequences, FiniteSets, TLC

VARIABLES
    \* inputs and results of the filter functions
    f_configs, f_uid, f_pc, f_matches, f_again, f_scraper, f_each,
    f_composite

VARIABLES
    \* TelegramScraper: its configuration and fields
    s_filter_config, s_target_groups, s_auto_add, s_session, s_running,
    s_auto_adder, stats, s_start_time_set,
    \* the TelegramAutoAdder instance in use
    adder,
    \* the calls of TelegramScraper.stop in progress
    stop_call,
    \* the scrape_all generator and what it has fetched and yielded
    g_pc, g_group, g_i, fetch_count, expected, emitted, errors_logged

filter_vars == << f_configs, f_uid, f_pc, f_matches, f_again, f_scraper,
                  f_each, f_composite >>
config_vars == << s_filter_config, s_target_groups, s_auto_add,
                  s_start_time_set >>
scraper_vars == << s_session, s_running, s_auto_adder, stats >>
gen_vars == << g_pc, g_group, g_i, fetch_count, expected, emitted,
               errors_logged >>

VARIABLES
    \* one call of _make_request: the engine it is called on, the
    \* configuration it reads, its position, what it has done so far, how
    \* the last attempt it sent ended and the length of the body it read
    r_engine, r_retry_attempts, r_stealth, r_delay, r_pc, r_attempt,
    r_result,
    r_attempts, r_after_stop, r_waits, r_outcome, r_body,
    \* a call of TelegramAutoAdder.stop on an adder used on its own
    a_stop_pc,
    \* one call of batch_add: its position, its locals and its summary
    b_pc, b_total, b_index, b_successful, b_failed, b_summary, b_base,
    b_results, b_waits

VARIABLES
    \* the readers of Stats: the Stats the terminal UI was last handed
    \* (ui.update) and the last response of the dashboard's /api/stats
    ui_stats, d_response

VARIABLES
    \* _update_stats with its clock: the Stats fields it writes and the
    \* elapsed time it last computed
    t_stats, t_elapsed

VARIABLES
    \* DashboardServer: every record handed to add_uid so far, the list
    \* _recent_uids and the last response of /api/uids
    d_added, d_recent, d_uids,
    \* __main__.main: its position, the failure it ended with, the list
    \* scraped_uids, the lists handed to the exporter and the dashboard
    m_pc, m_error, m_scraped, m_exported, m_dashboard

reader_vars == << ui_stats, d_response >>
rate_vars == << t_stats, t_elapsed >>
dash_vars == << d_added, d_recent, d_uids >>
main_vars == << m_pc, m_error, m_scraped, m_exported, m_dashboard >>
side_vars == << rate_vars, dash_vars, main_vars >>
req_vars == << r_engine, r_retry_attempts, r_stealth, r_delay, r_pc, r_attempt,
               r_result, r_attempts, r_after_stop, r_waits, r_outcome,
               r_body >>
batch_vars == << b_pc, b_total, b_index, b_successful, b_failed, b_summary,
                 b_base, b_results, b_waits >>
vars == << filter_vars, reader_vars, side_vars, config_vars, scraper_vars, adder, stop_call,
           gen_vars, req_vars, a_stop_pc, batch_vars >>

(***************************************************************************)
(* Optional values: None is the empty tuple, a present value x is <<x>>.   *)
(***************************************************************************)
None == << >>
Some(x) == <<x>>
IsNone(o) == o = None
Val(o) == o[1]

(***************************************************************************)
(* Bounds of the model.                                                    *)
(***************************************************************************)
\* longest list of configs handed to create_composite_filter
MaxConfigs == 2
\* largest configured retry_attempts
MaxRetries == 3
\* largest configured request_delay and invite_delay, in seconds
MaxDelay == 1
\* most outcomes recorded by _update_stats in a timed run
MaxProcessed == 100
\* most records handed to the dashboard's add_uid
MaxAdds == 102
\* random.random() is drawn from the fractions k / RandomSteps of [0, 1)
RandomSteps == 2
\* longest list handed to batch_add
MaxBatch == 5
\* most add_user calls made directly before a batch
MaxDirectAdds == 1
\* members found in one group: _extract_uids simulates range(10), the model
\* a shorter range
GroupSize == 2

(***************************************************************************)
(* Input domains.  Strings are tuples of characters; a compiled pattern is *)
(* the literal prefix it matches; dates and activity levels are integers.  *)
(***************************************************************************)
Usernames == { None, Some(<< >>), Some(<<"a", "b">>), Some(<<"b", "a">>) }
Patterns == { None, Some(<<"a">>), Some(<<"b">>) }
Statuses == { "active", "inactive", "banned" }
Activities == { 2, 3, 5, 7, 8 }
MinActivityBounds == { None, Some(3) }
MaxActivityBounds == { None, Some(7) }
JoinDates == { 1, 2, 3 }
JoinDateBounds == { None, Some(2) }

\* a scraped record (types.py TelegramUID, built as a dict in scraper.py)
TelegramUID(username, status, activity_level, join_date) ==
    [ username |-> username, status |-> status,
      activity_level |-> activity_level, join_date |-> join_date ]

Records ==
    { TelegramUID(u, s, a, d) : u \in Usernames, s \in Statuses,
                                 a \in Activities, d \in JoinDates }

\* types.py FilterConfig
FilterConfig(mn, mx, ds, de, pat, eb, oa) ==
    [ min_activity_level |-> mn, max_activity_level |-> mx,
      join_date_start |-> ds, join_date_end |-> de,
      username_pattern |-> pat, exclude_banned |-> eb, only_active |-> oa ]

\* every config over the input domains
AllConfigs ==
    { FilterConfig(mn, mx, ds, de, pat, eb, oa) :
        mn \in MinActivityBounds, mx \in MaxActivityBounds,
        ds \in JoinDateBounds, de \in JoinDateBounds,
        pat \in Patterns, eb \in BOOLEAN, oa \in BOOLEAN }

\* FilterBuilder.build after at most one setter call on a fresh builder
BuilderConfigs ==
    { FilterConfig(mn, mx, None, None, None, FALSE, FALSE) :
        mn \in MinActivityBounds, mx \in MaxActivityBounds }
    \cup { FilterConfig(None, None, ds, de, None, FALSE, FALSE) :
        ds \in JoinDateBounds, de \in JoinDateBounds }
    \cup { FilterConfig(None, None, None, None, pat, FALSE, FALSE) :
        pat \in Patterns }
    \cup { FilterConfig(None, None, None, None, None, eb, oa) :
        eb \in BOOLEAN, oa \in BOOLEAN }

\* the lists of configs the filter functions are applied to: every single
\* config, and every list of builder configs up to MaxConfigs long
ConfigLists ==
    { <<c>> : c \in AllConfigs }
    \cup UNION { [1..n -> BuilderConfigs] : n \in 0..MaxConfigs }

(***************************************************************************)
(* filters.py: UIDFilter                                                   *)
(***************************************************************************)
\* re.Pattern.match(s): the match is anchored at the start of s
PatternMatch(pattern, s) ==
    /\ Len(s) >= Len(pattern)
    /\ SubSeq(s, 1, Len(pattern)) = pattern

\* Python truthiness of an Optional[str]: None and "" are falsy
Truthy(username) == ~IsNone(username) /\ Val(username) # << >>

\* a faulty bound check: a record at a bound is rejected
check_activity_level_exclusive(config, uid) ==
    IF ~IsNone(config.min_activity_level)
         /\ uid.activity_level <= Val(config.min_activity_level)
    THEN FALSE
    ELSE IF ~IsNone(config.max_activity_level)
              /\ uid.activity_level >= Val(config.max_activity_level)
    THEN FALSE
    ELSE TRUE

check_activity_level(config, uid) ==
    IF ~IsNone(config.min_activity_level)
         /\ uid.activity_level < Val(config.min_activity_level)
    THEN FALSE
    ELSE IF ~IsNone(config.max_activity_level)
              /\ uid.activity_level > Val(config.max_activity_level)
    THEN FALSE
    ELSE TRUE

check_join_date(config, uid) ==
    IF ~IsNone(config.join_date_start)
         /\ uid.join_date < Val(config.join_date_start)
    THEN FALSE
    ELSE IF ~IsNone(config.join_date_end)
              /\ uid.join_date > Val(config.join_date_end)
    THEN FALSE
    ELSE TRUE

check_username(config, uid) ==
    IF IsNone(config.username_pattern) THEN TRUE
    ELSE IF ~Truthy(uid.username) THEN FALSE
    ELSE PatternMatch(Val(config.username_pattern), Val(uid.username))

check_status(config, uid) ==
    IF config.exclude_banned /\ uid.status = "banned" THEN FALSE
    ELSE IF config.only_active /\ uid.status # "active" THEN FALSE
    ELSE TRUE

matches(config, uid) ==
    /\ check_activity_level(config, uid)
    /\ check_join_date(config, uid)
    /\ check_username(config, uid)
    /\ check_status(config, uid)

\* a faulty matches: the check of the username consumes it
matches_clears_username(config, uid) ==
    [ config |-> config, uid |-> [ uid EXCEPT !.username = None ] ]

\* the filter's config and the record as a call of matches leaves them:
\* matches and the four checks assign to neither (the only assignment is to
\* the local join_date), and they touch nothing else
matches_leaves(config, uid) == [ config |-> config, uid |-> uid ]

\* apply_filters(uids, filters): the uids every filter matches, in order
apply_filters(uids, filters) ==
    IF filters = << >> THEN uids
    ELSE SelectSeq(uids, LAMBDA uid :
             \A k \in 1..Len(filters) : matches(filters[k], uid))

(***************************************************************************)
(* filters.py: create_composite_filter                                     *)
(***************************************************************************)
SetMax(S) == CHOOSE x \in S : \A y \in S : y <= x
SetMin(S) == CHOOSE x \in S : \A y \in S : x <= y

\* max(generator, default=None) / min(generator, default=None)
MaxDefaultNone(S) == IF S = {} THEN None ELSE Some(SetMax(S))
MinDefaultNone(S) == IF S = {} THEN None ELSE Some(SetMin(S))

\* the values of one optional field that the configs set
Specified(configs, field) ==
    { Val(configs[k][field]) :
        k \in { j \in 1..Len(configs) : ~IsNone(configs[j][field]) } }

\* the username_pattern argument of the composite FilterConfig
composite_pattern(configs) == configs[1].username_pattern

composite_config(configs) ==
    FilterConfig(
        MaxDefaultNone(Specified(configs, "min_activity_level")),
        MinDefaultNone(Specified(configs, "max_activity_level")),
        MaxDefaultNone(Specified(configs, "join_date_start")),
        MinDefaultNone(Specified(configs, "join_date_end")),
        composite_pattern(configs),
        \E k \in 1..Len(configs) : configs[k].exclude_banned,
        \E k \in 1..Len(configs) : configs[k].only_active)

\* an empty list takes the FilterConfig() branch: the dataclass has seven
\* required fields and no defaults, so the constructor raises TypeError
create_composite_filter(configs) ==
    IF configs = << >>
    THEN [ raised |-> TRUE, config |-> None ]
    ELSE [ raised |-> FALSE, config |-> Some(composite_config(configs)) ]

(***************************************************************************)
(* scraper.py: TelegramScraper._apply_filters                              *)
(***************************************************************************)
\* the username clause of _apply_filters: TRUE when the clause rejects
scraper_username_rejects(fc, uid) ==
    /\ ~IsNone(fc.username_pattern)
    /\ Truthy(uid.username)
    /\ ~PatternMatch(Val(fc.username_pattern), Val(uid.username))

\* filter_config is an Optional[FilterConfig]
scraper_apply_filters(filter_config, uid) ==
    IF IsNone(filter_config) THEN TRUE
    ELSE LET fc == Val(filter_config) IN
      IF ~IsNone(fc.min_activity_level)
           /\ uid.activity_level < Val(fc.min_activity_level) THEN FALSE
      ELSE IF ~IsNone(fc.max_activity_level)
           /\ uid.activity_level > Val(fc.max_activity_level) THEN FALSE
      ELSE IF ~IsNone(fc.join_date_start)
           /\ uid.join_date < Val(fc.join_date_start) THEN FALSE
      ELSE IF ~IsNone(fc.join_date_end)
           /\ uid.join_date > Val(fc.join_date_end) THEN FALSE
      ELSE IF scraper_username_rejects(fc, uid) THEN FALSE
      ELSE IF fc.exclude_banned /\ uid.status = "banned" THEN FALSE
      ELSE IF fc.only_active /\ uid.status # "active" THEN FALSE
      ELSE TRUE

(***************************************************************************)
(* auto_adder.py: TelegramAutoAdder                                        *)
(*                                                                         *)
(* A session is "none" (the field is None), "open", or "closed" (close()   *)
(* has run on it but the field still refers to it: stop is suspended in    *)
(* `await self._session.close()`).                                         *)
(***************************************************************************)
\* TelegramAutoAdder.__init__
NewAdder ==
    [ session |-> "none", running |-> FALSE,
      success_count |-> 0, failure_count |-> 0 ]

\* TelegramAutoAdder.start: nothing in it suspends
adder_start(a) ==
    IF a.session # "none" THEN a
    ELSE [ a EXCEPT !.session = "open", !.running = TRUE ]

\* TelegramAutoAdder.add_user: the simulated invite succeeds or fails
\* (random.random() > 0.2) and the matching counter is incremented
add_user(a, success) ==
    IF success THEN [ a EXCEPT !.success_count = @ + 1 ]
    ELSE [ a EXCEPT !.failure_count = @ + 1 ]

\* TelegramAutoAdder.stats
adder_stats(a) ==
    [ success_count |-> a.success_count,
      failure_count |-> a.failure_count,
      total_attempts |-> a.success_count + a.failure_count ]

\* TelegramAutoAdder.stop up to its first suspension: an open session is
\* closed and the call suspends in close(); close() of a closed session
\* returns at once and the field is cleared
adder_stop_begin(a) ==
    [ a EXCEPT !.running = FALSE,
               !.session = IF @ = "open" THEN "closed" ELSE "none" ]

\* does adder_stop_begin suspend in close()?
adder_stop_suspends(a) == a.session = "open"

\* a faulty stop: the closed session is not cleared
adder_stop_end_keeps_session(a) == a

\* TelegramAutoAdder.stop after close() returns
adder_stop_end(a) == [ a EXCEPT !.session = "none" ]

(***************************************************************************)
(* scraper.py: TelegramScraper                                             *)
(***************************************************************************)
\* types.py Stats() as the scraper's constructor leaves it; start_time is
\* None there and no code of the repository assigns it
NewStats ==
    [ total_processed |-> 0, successful_scrapes |-> 0, failed_scrapes |-> 0,
      bandwidth_used |-> 0, auto_add_stats |-> None ]

\* _update_stats subtracts stats.start_time from time.time() first: with
\* start_time None that raises TypeError before any counter changes
update_stats_raises == ~s_start_time_set

\* a faulty _update_stats: a failure is added to the total only
update_stats_uncounted_failure(st, success) ==
    IF success
    THEN [ st EXCEPT !.total_processed = @ + 1, !.successful_scrapes = @ + 1 ]
    ELSE [ st EXCEPT !.total_processed = @ + 1 ]

\* _update_stats(success) when it does not raise
update_stats(st, success) ==
    IF success
    THEN [ st EXCEPT !.total_processed = @ + 1, !.successful_scrapes = @ + 1 ]
    ELSE [ st EXCEPT !.total_processed = @ + 1, !.failed_scrapes = @ + 1 ]

(***************************************************************************)
(* scraper.py: the rate and the estimate _update_stats computes.  Floats   *)
(* are fractions in lowest terms; time.time() - start_time is a whole      *)
(* number of seconds.                                                      *)
(***************************************************************************)
RECURSIVE GCD(_, _)
GCD(a, b) == IF b = 0 THEN a ELSE GCD(b, a % b)

Abs(n) == IF n < 0 THEN 0 - n ELSE n

\* num / den for den > 0
Fraction(num, den) ==
    LET g == GCD(Abs(num), den)
    IN  [ num |-> num \div g, den |-> den \div g ]

\* the dividend divided by a fraction above zero
DividedBy(dividend, f) == Fraction(dividend * f.den, f.num)

\* Stats(): the counters and the two floats _update_stats writes
NewTimedStats ==
    [ total_processed |-> 0, successful_scrapes |-> 0, failed_scrapes |-> 0,
      current_rate |-> Fraction(0, 1),
      estimated_time_remaining |-> Fraction(0, 1) ]

\* a faulty rate: the successes alone are divided by the elapsed time
current_rate_of_successes(st, elapsed_time) ==
    IF elapsed_time > 0
    THEN [ st EXCEPT !.current_rate =
                        Fraction(st.successful_scrapes, elapsed_time) ]
    ELSE st

\* `if elapsed_time > 0: current_rate = total_processed / elapsed_time`
current_rate(st, elapsed_time) ==
    IF elapsed_time > 0
    THEN [ st EXCEPT !.current_rate =
                        Fraction(st.total_processed, elapsed_time) ]
    ELSE st

\* `if current_rate > 0: remaining_groups = len(target_groups) -
\* total_processed; estimated_time_remaining = remaining_groups / current_rate`
estimated_time_remaining(st, target_groups) ==
    IF st.current_rate.num > 0
    THEN [ st EXCEPT !.estimated_time_remaining =
                        DividedBy(target_groups - st.total_processed,
                                  st.current_rate) ]
    ELSE st

\* the clock readings of a run, as seconds since start_time
ElapsedTimes == { 0, 1, 2, 50 }

\* len(config.target_groups) of the scrapers _update_stats is timed on
TimedTargetCounts == { 1, 2, 300 }

\* _update_stats(success) is called: time.time() does not go back
UpdateStatsCall ==
    /\ t_stats.total_processed < MaxProcessed
    /\ \E success \in BOOLEAN, elapsed_time \in ElapsedTimes :
         /\ elapsed_time >= t_elapsed
         /\ IF update_stats_raises
            THEN UNCHANGED rate_vars
            ELSE /\ t_elapsed' = elapsed_time
                 /\ t_stats' = estimated_time_remaining(
                                   current_rate(update_stats(t_stats, success),
                                                elapsed_time),
                                   s_target_groups)
    /\ UNCHANGED << filter_vars, reader_vars, dash_vars, main_vars,
                    config_vars, scraper_vars, adder, stop_call, gen_vars,
                    req_vars, a_stop_pc, batch_vars >>

\* _update_stats is not looked at with its clock
RateIdle ==
    /\ t_stats = NewTimedStats
    /\ t_elapsed = 0

(***************************************************************************)
(* server.py: the dashboard's list of recent records.                      *)
(***************************************************************************)
\* self._max_recent_uids
max_recent_uids == 100

\* a faulty add_uid: the list is cut to one entry less than the bound
add_uid_cut_short(recent, uid) ==
    LET inserted == << uid >> \o recent
    IN  IF Len(inserted) >= max_recent_uids
        THEN SubSeq(inserted, 1, Len(inserted) - 1)
        ELSE inserted

\* add_uid: `insert(0, uid)`, then `pop()` of the last entry when the list
\* is longer than the bound
add_uid(recent, uid) ==
    LET inserted == << uid >> \o recent
    IN  IF Len(inserted) > max_recent_uids
        THEN SubSeq(inserted, 1, Len(inserted) - 1)
        ELSE inserted

\* the slice `recent[:limit]`: a negative limit counts from the end
slice_to(recent, limit) ==
    IF limit >= 0
    THEN SubSeq(recent, 1, IF limit < Len(recent) THEN limit ELSE Len(recent))
    ELSE SubSeq(recent, 1, IF Len(recent) + limit > 0
                           THEN Len(recent) + limit ELSE 0)

\* the values of the `limit` query parameter; without one it is "10"
Limits == { -1, 0, 1, 10, 100, 101 }

dash_frame ==
    UNCHANGED << filter_vars, reader_vars, rate_vars, main_vars, config_vars,
                 scraper_vars, adder, stop_call, gen_vars, req_vars,
                 a_stop_pc, batch_vars >>

\* add_uid is called with the next record; records are numbered as added
AddUid ==
    /\ Len(d_added) < MaxAdds
    /\ LET uid == Len(d_added) + 1 IN
         /\ d_added' = Append(d_added, uid)
         /\ d_recent' = add_uid(d_recent, uid)
    /\ UNCHANGED d_uids
    /\ dash_frame

\* a request for /api/uids is served
GetUids ==
    /\ \E limit \in Limits :
         d_uids' = Some([ limit |-> limit, body |-> slice_to(d_recent, limit) ])
    /\ UNCHANGED << d_added, d_recent >>
    /\ dash_frame

\* a dashboard that was handed nothing and asked nothing
DashIdle ==
    /\ d_added = << >>
    /\ d_recent = << >>
    /\ d_uids = None

\* no main is running
MainIdle ==
    /\ m_pc = "off"
    /\ m_error = "none"
    /\ m_scraped = << >>
    /\ m_exported = << >>
    /\ m_dashboard = "disabled"

SideIdle == RateIdle /\ DashIdle /\ MainIdle

\* the records a simulated fetch produces
PipelineRecords ==
    { TelegramUID(Some(<<"a", "b">>), "active", 5, 2),
      TelegramUID(None, "active", 5, 2),
      TelegramUID(Some(<<"a", "b">>), "banned", 5, 2) }

\* the filter configurations of a scraper
PipelineFilterConfigs ==
    { None,
      Some(FilterConfig(None, None, None, None, None, TRUE, FALSE)),
      Some(FilterConfig(None, None, None, None, Some(<<"a">>), FALSE, FALSE)) }

\* len(config.target_groups) of a scraper; the groups are numbered from 1
TargetGroupCounts == { 1, 2 }

\* a record with its platform id; random.randint is modelled by the ordinal
\* of the fetch, which keeps the records of one run distinct
WithUid(rec, n) == [ uid |-> n ] @@ rec

\* the callers of TelegramScraper.stop in __main__.py: the signal handler's
\* shutdown task and the exit of `async with scraper`
StopCallers == { "shutdown", "aexit" }

\* the generator is between two suspension points: nothing else runs
Internal == g_pc \in { "group", "loop" }

\* TelegramScraper.__init__: the fields of a new scraper; no generator yet
ScraperFresh ==
    /\ s_session = "none"
    /\ s_running = FALSE
    /\ s_auto_adder = FALSE
    /\ stats = NewStats
    /\ adder = NewAdder
    /\ stop_call = [ c \in StopCallers |-> [ pc |-> "idle", stale |-> FALSE ] ]
    /\ g_pc = "none"
    /\ g_group = 1
    /\ g_i = 0
    /\ fetch_count = 0
    /\ expected = << >>
    /\ emitted = << >>
    /\ errors_logged = 0

\* a scraper that takes no part in the specification at hand
ScraperIdle ==
    /\ s_filter_config = None
    /\ s_target_groups = 1
    /\ s_auto_add = FALSE
    /\ s_start_time_set = FALSE
    /\ ScraperFresh

\* the scrapers over the configurations
ScraperInit ==
    /\ s_filter_config \in PipelineFilterConfigs
    /\ s_target_groups \in TargetGroupCounts
    /\ s_auto_add \in BOOLEAN
    /\ s_start_time_set \in BOOLEAN
    /\ ScraperFresh

\* a stop call suspended in the close() of the adder it is stopping loses
\* that adder when start replaces self._auto_adder
MarkStale(calls) ==
    [ c \in StopCallers |->
        IF calls[c].pc = "adder_closing"
        THEN [ calls[c] EXCEPT !.stale = TRUE ] ELSE calls[c] ]

\* a faulty guard: start goes on whatever the session field holds
has_session_ignored(session) == FALSE

\* `if self._session: return` of start: a session object, open or closed
has_session(session) == session # "none"

\* TelegramScraper.start: the effect on the scraper and adder fields.
\* Nothing in it suspends (TelegramAutoAdder.start does not either).
start_effect ==
    IF has_session(s_session)
    THEN UNCHANGED << s_session, s_running, s_auto_adder, adder, stop_call >>
    ELSE /\ s_session' = "open"
         /\ s_running' = TRUE
         /\ IF s_auto_add
            THEN /\ s_auto_adder' = TRUE
                 /\ adder' = adder_start(NewAdder)
                 /\ stop_call' = MarkStale(stop_call)
            ELSE UNCHANGED << s_auto_adder, adder, stop_call >>

\* a call of TelegramScraper.start (__aenter__, or any caller)
ScraperStart ==
    /\ ~Internal
    /\ start_effect
    /\ UNCHANGED << filter_vars, reader_vars, side_vars, req_vars, a_stop_pc, batch_vars, config_vars, stats, gen_vars >>

\* the tail of TelegramScraper.stop from `if self._auto_adder:` on, for
\* caller c, given the session value the first half leaves
stop_adder_part(c, session) ==
    /\ s_session' = session
    /\ IF ~s_auto_adder
       THEN /\ stop_call' = [ stop_call EXCEPT ![c] =
                                [ pc |-> "idle", stale |-> FALSE ] ]
            /\ UNCHANGED << adder, stats >>
       ELSE /\ adder' = adder_stop_begin(adder)
            /\ IF adder_stop_suspends(adder)
               THEN /\ stop_call' = [ stop_call EXCEPT ![c] =
                          [ pc |-> "adder_closing", stale |-> FALSE ] ]
                    /\ UNCHANGED stats
               ELSE /\ stop_call' = [ stop_call EXCEPT ![c] =
                          [ pc |-> "idle", stale |-> FALSE ] ]
                    /\ stats' = [ stats EXCEPT !.auto_add_stats =
                                    Some(adder_stats(adder')) ]

\* stop(): clears the running flag, then closes the session; close() of an
\* open session suspends, close() of a closed one returns at once
stop_begin(c) ==
    /\ stop_call[c].pc = "idle"
    /\ s_running' = FALSE
    /\ IF s_session = "open"
       THEN /\ s_session' = "closed"
            /\ stop_call' = [ stop_call EXCEPT ![c] =
                                [ pc |-> "closing", stale |-> FALSE ] ]
            /\ UNCHANGED << adder, stats >>
       ELSE stop_adder_part(c, "none")

\* a call of TelegramScraper.stop by caller c begins
ScraperStopBegin(c) ==
    /\ ~Internal
    /\ stop_begin(c)
    /\ UNCHANGED << filter_vars, reader_vars, side_vars, req_vars, a_stop_pc, batch_vars, config_vars, s_auto_adder, gen_vars >>

\* stop() resumes after `await self._session.close()`
ScraperStopClosed(c) ==
    /\ ~Internal
    /\ stop_call[c].pc = "closing"
    /\ stop_adder_part(c, "none")
    /\ UNCHANGED << filter_vars, reader_vars, side_vars, req_vars, a_stop_pc, batch_vars, config_vars, s_running, s_auto_adder,
                    gen_vars >>

\* stop() resumes after `await self._auto_adder.stop()`: the adder that was
\* being stopped clears its session, and the statistics of the adder that
\* self._auto_adder now refers to are folded into stats
ScraperStopAdderClosed(c) ==
    /\ ~Internal
    /\ stop_call[c].pc = "adder_closing"
    /\ adder' = IF stop_call[c].stale THEN adder ELSE adder_stop_end(adder)
    /\ stats' = [ stats EXCEPT !.auto_add_stats = Some(adder_stats(adder')) ]
    /\ stop_call' = [ stop_call EXCEPT ![c] =
                        [ pc |-> "idle", stale |-> FALSE ] ]
    /\ UNCHANGED << filter_vars, reader_vars, side_vars, req_vars, a_stop_pc, batch_vars, config_vars, s_session, s_running,
                    s_auto_adder, gen_vars >>

(***************************************************************************)
(* scraper.py: scrape_all and _extract_uids, one action per stretch of     *)
(* code between two suspension points.  The generators suspend at `yield   *)
(* uid` and at `await asyncio.sleep(0.5)`; start() and add_user() contain  *)
(* no await that suspends.  g_pc "group" is the entry of _extract_uids for *)
(* group g_group and "loop" the head of its for loop: both are passed      *)
(* inside one stretch, so no other coroutine runs there (Internal).        *)
(***************************************************************************)
\* a record as the consumer receives it: its uid, and the group and the loop
\* index of _extract_uids it was fetched at
Emission(uid, group, index) ==
    [ uid |-> uid.uid, group |-> group, index |-> index ]

\* the fetched record when the Filter Engine (UIDFilter.matches under the
\* scraper's filter configuration) accepts it, for the record of what a run
\* is expected to emit
engine_accepts(filter_config, uid, group, index) ==
    IF IsNone(filter_config) \/ matches(Val(filter_config), uid)
    THEN << Emission(uid, group, index) >> ELSE << >>

\* a faulty hand-over: the newest record is put in front of the others
yielded_newest_first(out, record) == << record >> \o out

\* `yield uid` of _extract_uids, passed on by `yield uid` of scrape_all: the
\* consumer receives the record after those it has received
yielded(out, record) == Append(out, record)

\* the first __anext__ of a new scrape_all generator: start() unless running
ScrapeAllBegin ==
    /\ g_pc = "none"
    /\ IF s_running
       THEN UNCHANGED << s_session, s_running, s_auto_adder, adder, stop_call >>
       ELSE start_effect
    /\ g_pc' = "group"
    /\ g_group' = 1
    /\ g_i' = 0
    /\ UNCHANGED << filter_vars, reader_vars, side_vars, req_vars, a_stop_pc, batch_vars, config_vars, stats, fetch_count, expected,
                    emitted, errors_logged >>

\* `for group in target_groups` and the entry of _extract_uids(group)
ExtractEnter ==
    /\ g_pc = "group"
    /\ IF g_group > s_target_groups
       THEN g_pc' = "done" /\ UNCHANGED << g_group, g_i >>
       ELSE IF ~s_running
       THEN g_group' = g_group + 1 /\ UNCHANGED << g_pc, g_i >>
       ELSE g_pc' = "loop" /\ g_i' = 0 /\ UNCHANGED g_group
    /\ UNCHANGED << filter_vars, reader_vars, side_vars, req_vars, a_stop_pc, batch_vars, config_vars, scraper_vars, adder, stop_call,
                    fetch_count, expected, emitted, errors_logged >>

\* the `except Exception` handler of _extract_uids: the error is logged and
\* _update_stats(success=False) is called; when that raises too, the
\* exception leaves the generator, scrape_all logs it and re-raises
handle_group_error ==
    IF update_stats_raises
    THEN /\ errors_logged' = errors_logged + 2
         /\ g_pc' = "failed"
         /\ UNCHANGED << stats, g_group >>
    ELSE /\ errors_logged' = errors_logged + 1
         /\ stats' = update_stats(stats, FALSE)
         /\ g_group' = g_group + 1
         /\ g_pc' = "group"

\* a faulty loop head: the running flag is not looked at
keep_fetching_unchecked == g_i < GroupSize

\* the head of `for i in range(...)`: another member is fetched while the
\* range lasts and the running flag is true (else `break`)
keep_fetching == g_i < GroupSize /\ s_running

\* the range is exhausted or the running flag is false: the group is complete
LoopExit ==
    /\ g_pc = "loop"
    /\ ~keep_fetching
    /\ g_group' = g_group + 1
    /\ g_pc' = "group"
    /\ UNCHANGED << filter_vars, reader_vars, side_vars, req_vars, a_stop_pc, batch_vars, config_vars, scraper_vars, adder, stop_call,
                    g_i, fetch_count, expected, emitted, errors_logged >>

\* an exception raised in the try block before the record is filtered
FetchRaises ==
    /\ g_pc = "loop"
    /\ keep_fetching
    /\ handle_group_error
    /\ UNCHANGED << filter_vars, reader_vars, side_vars, req_vars, a_stop_pc, batch_vars, config_vars, s_session, s_running,
                    s_auto_adder, adder, stop_call, g_i, fetch_count,
                    expected, emitted >>

\* one record is produced and _apply_filters accepts it: the outcome is
\* counted, the record is handed to the auto-adder and yielded
FetchAccepted ==
    /\ g_pc = "loop"
    /\ keep_fetching
    /\ \E rec \in PipelineRecords :
         LET uid == WithUid(rec, fetch_count + 1) IN
         /\ scraper_apply_filters(s_filter_config, uid)
         /\ fetch_count' = fetch_count + 1
         /\ expected' = expected \o
                        engine_accepts(s_filter_config, uid, g_group, g_i)
         /\ IF update_stats_raises
            THEN handle_group_error /\ UNCHANGED << adder, emitted >>
            ELSE /\ IF s_auto_adder
                    THEN \E success \in BOOLEAN :
                           /\ adder' = add_user(adder, success)
                           /\ stats' = [ update_stats(stats, TRUE) EXCEPT
                                !.auto_add_stats = Some(adder_stats(adder')) ]
                    ELSE /\ stats' = update_stats(stats, TRUE)
                         /\ UNCHANGED adder
                 /\ emitted' = yielded(emitted, Emission(uid, g_group, g_i))
                 /\ g_pc' = "yielded"
                 /\ UNCHANGED << g_group, errors_logged >>
    /\ UNCHANGED << filter_vars, reader_vars, side_vars, req_vars, a_stop_pc, batch_vars, config_vars, s_session, s_running,
                    s_auto_adder, stop_call, g_i >>

\* one record is produced and _apply_filters rejects it: the outcome is
\* counted and the generator sleeps
FetchRejected ==
    /\ g_pc = "loop"
    /\ keep_fetching
    /\ \E rec \in PipelineRecords :
         LET uid == WithUid(rec, fetch_count + 1) IN
         /\ ~scraper_apply_filters(s_filter_config, uid)
         /\ fetch_count' = fetch_count + 1
         /\ expected' = expected \o
                        engine_accepts(s_filter_config, uid, g_group, g_i)
         /\ IF update_stats_raises
            THEN handle_group_error
            ELSE /\ stats' = update_stats(stats, FALSE)
                 /\ g_pc' = "sleeping"
                 /\ UNCHANGED << g_group, errors_logged >>
    /\ UNCHANGED << filter_vars, reader_vars, side_vars, req_vars, a_stop_pc, batch_vars, config_vars, s_session, s_running,
                    s_auto_adder, adder, stop_call, g_i, emitted >>

\* the consumer asks for the next record: the generator resumes after
\* `yield uid` and suspends in asyncio.sleep(0.5)
ResumeAfterYield ==
    /\ g_pc = "yielded"
    /\ g_pc' = "sleeping"
    /\ UNCHANGED << filter_vars, reader_vars, side_vars, req_vars, a_stop_pc, batch_vars, config_vars, scraper_vars, adder, stop_call,
                    g_group, g_i, fetch_count, expected, emitted,
                    errors_logged >>

\* asyncio.sleep(0.5) is over: next iteration of the for loop
SleepDone ==
    /\ g_pc = "sleeping"
    /\ g_i' = g_i + 1
    /\ g_pc' = "loop"
    /\ UNCHANGED << filter_vars, reader_vars, side_vars, req_vars, a_stop_pc, batch_vars, config_vars, scraper_vars, adder, stop_call,
                    g_group, fetch_count, expected, emitted, errors_logged >>


(***************************************************************************)
(* scraper.py / auto_adder.py: _make_request.  The call suspends in the    *)
(* delay before an attempt ("delay"), in the request itself ("request")    *)
(* and in the backoff sleep ("backoff").                                   *)
(***************************************************************************)
Engines == { "scraper", "adder" }

\* response bodies by length
BodySizes == { 0, 1 }

\* configured delays in seconds: --delay and --invite-delay take any float
Delays == 0..MaxDelay

\* a length of time in seconds, as a fraction
Seconds(num, den) == [ num |-> num, den |-> den ]

\* how an attempt sent on an open session ends: status 200 with a body that
\* response.json() parses, status 200 with a body on which response.json()
\* raises, another status, or asyncio.TimeoutError or any other exception
\* raised before there is a response
Outcomes == { "ok", "unparsable", "status", "timeout", "error" }

\* response.status of an attempt that ended with the outcome; 0 when there
\* was no response
response_status(outcome) ==
    CASE outcome \in { "ok", "unparsable" } -> 200
      [] outcome = "status" -> 500
      [] OTHER -> 0

\* a faulty success branch: the payload is parsed but not returned
returns_payload_dropped(outcome) == FALSE

\* `if response.status == 200: return await response.json()` returns
returns_payload(outcome) == outcome = "ok"

\* the outcomes that are an exception raised inside the try block
raises(outcome) == outcome \in { "unparsable", "timeout", "error" }

\* a faulty handler: only the timeout is caught
caught_timeout_only(outcome) == outcome = "timeout"

\* `except asyncio.TimeoutError` and `except Exception` of the try block
caught(outcome) == outcome = "timeout" \/ outcome \in { "unparsable", "error" }

\* a faulty counter: the size of the last body replaces the sum
bandwidth_overwritten(used, size) == size

\* `self.stats.bandwidth_used += len(await response.read())`.  The left-hand
\* value is loaded before the await; the calls modelled here are made one
\* at a time, and nothing else writes the counter in between
bandwidth_added(used, size) == used + size

\* a faulty order: the body is read after the status check, on success only
body_read_on_success(outcome) == outcome \in { "ok", "unparsable" }

\* the outcomes in which the scraper has read the response body
body_read(outcome) == outcome \in { "ok", "unparsable", "status" }

\* self._session of the engine the call is made on
EngineSession == IF r_engine = "scraper" THEN s_session ELSE adder.session

\* a faulty guard: the call goes on without a session
session_missing_ignored(session) == FALSE

\* `if not self._session: raise RuntimeError(...)`
session_missing(session) == session = "none"

\* a faulty loop: one attempt too many
in_retry_range_one_more(attempt, retry_attempts) == attempt <= retry_attempts

\* `for attempt in range(self.config.retry_attempts)`
in_retry_range(attempt, retry_attempts) == attempt < retry_attempts

\* a faulty delay: the scraper delays retries only, as the adder does
delay_before_retry(engine, attempt, stealth) ==
    IF engine = "scraper" THEN stealth /\ attempt > 0 ELSE attempt > 0

\* is there a sleep before the attempt: the scraper's stealth delay before
\* every attempt, the adder's invite delay before every attempt but the first
delay_before(engine, attempt, stealth) ==
    IF engine = "scraper" THEN stealth ELSE attempt > 0

\* a faulty delay: the random fraction alone scales the configured delay
random_delay_unshifted(delay, k) == Seconds(delay * k, RandomSteps)

\* `delay * (1 + random.random())` with random.random() = k / RandomSteps
random_delay(delay, k) == Seconds(delay * (RandomSteps + k), RandomSteps)

\* a faulty backoff: it grows by one second an attempt
backoff_linear(attempt) == Seconds(attempt + 1, 1)

\* `2 ** attempt`
backoff(attempt) == Seconds(2 ^ attempt, 1)

Wait(kind, attempt, seconds) ==
    [ kind |-> kind, attempt |-> attempt, seconds |-> seconds ]

\* a faulty loop: the last attempt allowed is not followed by a backoff
to_backoff_unless_last(attempt) ==
    IF attempt + 1 < r_retry_attempts
    THEN /\ r_pc' = "backoff"
         /\ r_attempt' = attempt
         /\ r_waits' = Append(r_waits, Wait("backoff", attempt, backoff(attempt)))
         /\ UNCHANGED r_result
    ELSE /\ r_pc' = "returned"
         /\ r_result' = "None"
         /\ r_attempt' = attempt + 1
         /\ UNCHANGED r_waits

\* the position of a call that leaves the try block without having returned:
\* `await asyncio.sleep(2 ** attempt)`
to_backoff(attempt) ==
    /\ r_pc' = "backoff"
    /\ r_attempt' = attempt
    /\ r_waits' = Append(r_waits, Wait("backoff", attempt, backoff(attempt)))
    /\ UNCHANGED r_result

\* `self._session.request(...)`: on an open session the request is sent and
\* the call suspends; on a closed session it raises RuntimeError and on None
\* AttributeError, which `except Exception` logs before the backoff
issue_request(attempt) ==
    /\ r_attempts' = r_attempts + 1
    /\ IF EngineSession = "open"
       THEN /\ r_pc' = "request"
            /\ r_attempt' = attempt
            /\ UNCHANGED << r_result, r_after_stop, r_waits >>
       ELSE /\ r_after_stop' = r_after_stop + 1
            /\ to_backoff(attempt)

\* the head of the retry loop for index `attempt`
loop_head(attempt) ==
    IF ~in_retry_range(attempt, r_retry_attempts)
    THEN /\ r_pc' = "returned"
         /\ r_result' = "None"
         /\ r_attempt' = attempt
         /\ UNCHANGED << r_attempts, r_after_stop, r_waits >>
    ELSE IF delay_before(r_engine, attempt, r_stealth)
    THEN /\ r_pc' = "delay"
         /\ r_attempt' = attempt
         /\ \E k \in 0..(RandomSteps - 1) :
              r_waits' = Append(r_waits,
                                Wait("delay", attempt, random_delay(r_delay, k)))
         /\ UNCHANGED << r_result, r_attempts, r_after_stop >>
    ELSE issue_request(attempt)

req_frame ==
    UNCHANGED << filter_vars, reader_vars, side_vars, config_vars, s_session, s_running, s_auto_adder,
                 adder, stop_call, gen_vars, r_engine, r_retry_attempts,
                 r_stealth, r_delay, a_stop_pc, batch_vars >>

\* _make_request is called
MakeRequestCall ==
    /\ r_pc = "idle"
    /\ IF session_missing(EngineSession)
       THEN /\ r_pc' = "raised"
            /\ r_result' = "RuntimeError"
            /\ UNCHANGED << r_attempt, r_attempts, r_after_stop, r_waits >>
       ELSE loop_head(0)
    /\ UNCHANGED << stats, r_outcome, r_body >>
    /\ req_frame

\* the delay before the attempt is over
DelayDone ==
    /\ r_pc = "delay"
    /\ issue_request(r_attempt)
    /\ UNCHANGED << stats, r_outcome, r_body >>
    /\ req_frame

\* the request that was sent ends; the scraper adds the length of every
\* body it reads to stats.bandwidth_used
ResponseArrives ==
    /\ r_pc = "request"
    /\ \E outcome \in Outcomes, size \in BodySizes :
         /\ r_outcome' = outcome
         /\ IF r_engine = "scraper" /\ body_read(outcome)
            THEN /\ r_body' = Some(size)
                 /\ stats' = [ stats EXCEPT !.bandwidth_used =
                                     bandwidth_added(@, size) ]
            ELSE /\ r_body' = None
                 /\ UNCHANGED stats
         /\ IF returns_payload(outcome)
            THEN /\ r_pc' = "returned"
                 /\ r_result' = "payload"
                 /\ UNCHANGED << r_attempt, r_waits >>
            ELSE IF raises(outcome) /\ ~caught(outcome)
            THEN /\ r_pc' = "raised"
                 /\ r_result' = "Exception"
                 /\ UNCHANGED << r_attempt, r_waits >>
            ELSE to_backoff(r_attempt)
    /\ UNCHANGED << r_attempts, r_after_stop >>
    /\ req_frame

\* the backoff sleep is over: next iteration
BackoffDone ==
    /\ r_pc = "backoff"
    /\ loop_head(r_attempt + 1)
    /\ UNCHANGED << stats, r_outcome, r_body >>
    /\ req_frame

ReqIdle ==
    /\ r_engine = "scraper"
    /\ r_retry_attempts = 0
    /\ r_stealth = FALSE
    /\ r_delay = 0
    /\ r_pc = "off"
    /\ r_attempt = 0
    /\ r_result = "unset"
    /\ r_attempts = 0
    /\ r_after_stop = 0
    /\ r_waits = << >>
    /\ r_outcome = "none"
    /\ r_body = None

ReqInit ==
    /\ r_engine \in Engines
    /\ r_retry_attempts \in 0..MaxRetries
    /\ r_stealth \in (IF r_engine = "scraper" THEN BOOLEAN ELSE { FALSE })
    /\ r_delay \in Delays
    /\ r_pc = "idle"
    /\ r_attempt = 0
    /\ r_result = "unset"
    /\ r_attempts = 0
    /\ r_after_stop = 0
    /\ r_waits = << >>
    /\ r_outcome = "none"
    /\ r_body = None

(***************************************************************************)
(* auto_adder.py: start and stop called on an adder used on its own        *)
(***************************************************************************)
adder_frame ==
    UNCHANGED << filter_vars, reader_vars, side_vars, config_vars, scraper_vars, stop_call, gen_vars,
                 req_vars, batch_vars >>

AdderStart ==
    /\ adder' = adder_start(adder)
    /\ UNCHANGED a_stop_pc
    /\ adder_frame

AdderStopBegin ==
    /\ a_stop_pc = "idle"
    /\ adder' = adder_stop_begin(adder)
    /\ a_stop_pc' = IF adder_stop_suspends(adder) THEN "closing" ELSE "idle"
    /\ adder_frame

AdderStopClosed ==
    /\ a_stop_pc = "closing"
    /\ adder' = adder_stop_end(adder)
    /\ a_stop_pc' = "idle"
    /\ adder_frame

(***************************************************************************)
(* auto_adder.py: batch_add.  add_user and start do not suspend, so the    *)
(* call suspends only in `await asyncio.sleep(self.config.invite_delay)`   *)
(* after each add_user.                                                    *)
(***************************************************************************)
\* a faulty tally: a failed add is not counted
batch_tally_drops_failure(tally, added) ==
    IF added THEN [ tally EXCEPT !.successful = @ + 1 ] ELSE tally

\* `if await self.add_user(uid): successful += 1 else: failed += 1`
batch_tally(tally, added) ==
    IF added THEN [ tally EXCEPT !.successful = @ + 1 ]
    ELSE [ tally EXCEPT !.failed = @ + 1 ]

\* the dict batch_add returns
batch_summary(total, successful, failed) ==
    [ total |-> total, successful |-> successful, failed |-> failed ]

\* an adaptive limiter: no wait after a failed add
batch_waits_success_only(waits, index, added) ==
    IF added
    THEN Append(waits, [ after |-> index, delay |-> "invite_delay" ])
    ELSE waits

\* `await asyncio.sleep(self.config.invite_delay)` after the add_user call
\* of record number index, whatever that call returned
batch_waits(waits, index, added) ==
    Append(waits, [ after |-> index, delay |-> "invite_delay" ])

\* one iteration of `for uid in uids` up to its sleep, on adder a
batch_iteration(a) ==
    \E added \in BOOLEAN :
      LET tally == batch_tally([ successful |-> b_successful,
                                 failed |-> b_failed ], added) IN
      /\ adder' = add_user(a, added)
      /\ b_successful' = tally.successful
      /\ b_failed' = tally.failed
      /\ b_results' = Append(b_results, added)
      /\ b_index' = b_index + 1
      /\ b_waits' = batch_waits(b_waits, b_index + 1, added)
      /\ b_pc' = "sleep"
      /\ UNCHANGED b_summary

batch_return(total) ==
    /\ b_summary' = Some(batch_summary(total, b_successful, b_failed))
    /\ b_pc' = "returned"
    /\ UNCHANGED << b_successful, b_failed, b_results, b_index, b_waits >>

batch_frame ==
    UNCHANGED << filter_vars, reader_vars, side_vars, config_vars, scraper_vars, stop_call, gen_vars,
                 req_vars, a_stop_pc >>

\* batch_add(uids) is called with a list of n records: the adder is started
\* unless its running flag is set, then the first record is added
BatchAddCall ==
    /\ b_pc = "idle"
    /\ \E n \in 0..MaxBatch :
         LET a == IF adder.running THEN adder ELSE adder_start(adder) IN
         /\ b_total' = n
         /\ b_base' = adder_stats(a)
         /\ IF n = 0
            THEN adder' = a /\ batch_return(n)
            ELSE batch_iteration(a)
    /\ batch_frame

\* the sleep after an add_user is over: next record, or the summary
BatchSleepDone ==
    /\ b_pc = "sleep"
    /\ IF b_index < b_total
       THEN batch_iteration(adder)
       ELSE batch_return(b_total) /\ UNCHANGED adder
    /\ UNCHANGED << b_total, b_base >>
    /\ batch_frame

\* add_user called directly, before the batch
AddUserCall ==
    /\ b_pc = "idle"
    /\ adder.success_count + adder.failure_count < MaxDirectAdds
    /\ \E added \in BOOLEAN : adder' = add_user(adder, added)
    /\ UNCHANGED << batch_vars, a_stop_pc >>
    /\ UNCHANGED << filter_vars, reader_vars, side_vars, config_vars, scraper_vars, stop_call,
                    gen_vars, req_vars >>

(***************************************************************************)
(* The filter functions applied to bounded inputs.  A result is "unset"    *)
(* before the call, then the verdict, or the exception the call raised.    *)
(***************************************************************************)
Verdict(b) == IF b THEN "True" ELSE "False"

others_of_filter ==
    << reader_vars, side_vars, config_vars, scraper_vars, adder, stop_call,
       gen_vars, req_vars, a_stop_pc, batch_vars >>

\* no reader has asked for Stats yet; ui.py starts with a Stats() of its own
ReaderIdle ==
    /\ ui_stats = None
    /\ d_response = None

FilterIdle ==
    /\ f_configs = << >>
    /\ f_uid = TelegramUID(None, "active", 5, 2)
    /\ f_pc = "off"
    /\ f_matches = "unset"
    /\ f_again = "unset"
    /\ f_scraper = "unset"
    /\ f_each = "unset"
    /\ f_composite = "unset"

FilterInit ==
    /\ f_configs \in ConfigLists
    /\ f_uid \in Records
    /\ f_pc = "matches"
    /\ f_matches = "unset"
    /\ f_again = "unset"
    /\ f_scraper = "unset"
    /\ f_each = "unset"
    /\ f_composite = "unset"

\* the config and the record after matches has run on them
after_matches(config, uid) ==
    /\ f_configs' = [ f_configs EXCEPT ![1] = matches_leaves(config, uid).config ]
    /\ f_uid' = matches_leaves(config, uid).uid

\* UIDFilter(configs[0]).matches(uid)
CallMatches ==
    /\ f_pc = "matches"
    /\ IF f_configs = << >>
       THEN UNCHANGED << f_matches, f_configs, f_uid >>
       ELSE /\ f_matches' = Verdict(matches(f_configs[1], f_uid))
            /\ after_matches(f_configs[1], f_uid)
    /\ f_pc' = "again"
    /\ UNCHANGED << f_again, f_scraper, f_each, f_composite >>
    /\ UNCHANGED others_of_filter

\* matches(uid) is called a second time on the same filter and record
CallMatchesAgain ==
    /\ f_pc = "again"
    /\ IF f_configs = << >>
       THEN UNCHANGED << f_again, f_configs, f_uid >>
       ELSE /\ f_again' = Verdict(matches(f_configs[1], f_uid))
            /\ after_matches(f_configs[1], f_uid)
    /\ f_pc' = "scraper"
    /\ UNCHANGED << f_matches, f_scraper, f_each, f_composite >>
    /\ UNCHANGED others_of_filter

\* TelegramScraper(filter_config=configs[0] or None)._apply_filters(uid)
CallScraperApplyFilters ==
    /\ f_pc = "scraper"
    /\ f_scraper' = Verdict(scraper_apply_filters(
                        IF f_configs = << >> THEN None ELSE Some(f_configs[1]),
                        f_uid))
    /\ f_pc' = "each"
    /\ UNCHANGED << f_configs, f_uid, f_matches, f_again, f_each,
                    f_composite >>
    /\ UNCHANGED others_of_filter

\* apply_filters([uid], [UIDFilter(c) for c in configs]) keeps the uid
CallApplyFilters ==
    /\ f_pc = "each"
    /\ f_each' = Verdict(apply_filters(<<f_uid>>, f_configs) = <<f_uid>>)
    /\ f_pc' = "composite"
    /\ UNCHANGED << f_configs, f_uid, f_matches, f_again, f_scraper,
                    f_composite >>
    /\ UNCHANGED others_of_filter

\* create_composite_filter(configs).matches(uid)
CallCompositeFilter ==
    /\ f_pc = "composite"
    /\ LET built == create_composite_filter(f_configs) IN
         f_composite' = IF built.raised THEN "TypeError"
                        ELSE Verdict(matches(Val(built.config), f_uid))
    /\ f_pc' = "done"
    /\ UNCHANGED << f_configs, f_uid, f_matches, f_again, f_scraper, f_each >>
    /\ UNCHANGED others_of_filter

FilterNext ==
    \/ CallMatches
    \/ CallMatchesAgain
    \/ CallScraperApplyFilters
    \/ CallApplyFilters
    \/ CallCompositeFilter

BatchIdle ==
    /\ a_stop_pc = "idle"
    /\ b_pc = "off"
    /\ b_total = 0
    /\ b_index = 0
    /\ b_successful = 0
    /\ b_failed = 0
    /\ b_summary = None
    /\ b_base = adder_stats(NewAdder)
    /\ b_results = << >>
    /\ b_waits = << >>

FilterSpecInit ==
    FilterInit /\ ReaderIdle /\ SideIdle /\ ScraperIdle /\ ReqIdle /\ BatchIdle

SpecFilter == FilterSpecInit /\ [][FilterNext]_vars

(***************************************************************************)
(* The pipeline: one scraper, its consumer and the callers of stop.        *)
(***************************************************************************)
Init ==
    FilterIdle /\ ReaderIdle /\ SideIdle /\ ScraperInit /\ ReqIdle /\ BatchIdle

Next ==
    \/ ScraperStart
    \/ \E c \in StopCallers : ScraperStopBegin(c)
    \/ \E c \in StopCallers : ScraperStopClosed(c)
    \/ \E c \in StopCallers : ScraperStopAdderClosed(c)
    \/ ScrapeAllBegin
    \/ ExtractEnter
    \/ LoopExit
    \/ FetchRaises
    \/ FetchAccepted
    \/ FetchRejected
    \/ ResumeAfterYield
    \/ SleepDone

Spec == Init /\ [][Next]_vars

(***************************************************************************)
(* C3: for every list of N >= 1 configs and every record, the filter built *)
(* by create_composite_filter accepts the record iff every individual      *)
(* config's UIDFilter accepts it.                                          *)
(***************************************************************************)
C3_CompositeIsIntersection ==
    (f_pc = "done" /\ Len(f_configs) >= 1) => f_composite = f_each

(***************************************************************************)
(* C5: TelegramScraper._apply_filters returns the verdict of               *)
(* UIDFilter.matches for every record and filter spec; with a pattern set  *)
(* a record without a username is rejected.                                *)
(***************************************************************************)
C5_ScraperFilterIsMatches ==
    (f_pc = "done" /\ Len(f_configs) >= 1) => f_scraper = f_matches

(***************************************************************************)
(* One call of _make_request on a scraper or on an adder, with start and   *)
(* stop of that engine called by other tasks at any suspension point.      *)
(***************************************************************************)
ReqSpecInit ==
    /\ FilterIdle
    /\ ReaderIdle
    /\ SideIdle
    /\ BatchIdle
    /\ ReqInit
    /\ s_filter_config = None
    /\ s_target_groups = 1
    /\ s_auto_add \in (IF r_engine = "scraper" THEN BOOLEAN ELSE { FALSE })
    /\ s_start_time_set = FALSE
    /\ ScraperFresh

ReqNext ==
    \/ r_engine = "scraper" /\ ScraperStart
    \/ r_engine = "scraper" /\ \E c \in StopCallers : ScraperStopBegin(c)
    \/ r_engine = "scraper" /\ \E c \in StopCallers : ScraperStopClosed(c)
    \/ r_engine = "scraper" /\ \E c \in StopCallers : ScraperStopAdderClosed(c)
    \/ r_engine = "adder" /\ AdderStart
    \/ r_engine = "adder" /\ AdderStopBegin
    \/ r_engine = "adder" /\ AdderStopClosed
    \/ MakeRequestCall
    \/ DelayDone
    \/ ResponseArrives
    \/ BackoffDone

SpecReq == ReqSpecInit /\ [][ReqNext]_vars

(***************************************************************************)
(* An adder used on its own: add_user and batch_add, with start and stop   *)
(* called by other tasks at any suspension point.                          *)
(***************************************************************************)
BatchSpecInit ==
    /\ FilterIdle
    /\ ReaderIdle
    /\ SideIdle
    /\ ScraperIdle
    /\ ReqIdle
    /\ a_stop_pc = "idle"
    /\ b_pc = "idle"
    /\ b_total = 0
    /\ b_index = 0
    /\ b_successful = 0
    /\ b_failed = 0
    /\ b_summary = None
    /\ b_base = adder_stats(NewAdder)
    /\ b_results = << >>
    /\ b_waits = << >>

BatchNext ==
    \/ AdderStart
    \/ AdderStopBegin
    \/ AdderStopClosed
    \/ AddUserCall
    \/ BatchAddCall
    \/ BatchSleepDone

SpecBatch == BatchSpecInit /\ [][BatchNext]_vars

(***************************************************************************)
(* C1: in every state another coroutine or the consumer can observe, Stats *)
(* satisfies total_processed = successful_scrapes + failed_scrapes.        *)
(***************************************************************************)
C1_StatsTotal ==
    stats.total_processed = stats.successful_scrapes + stats.failed_scrapes

\* an accepted record, a rejected record and a group-level error have all
\* been counted
C1_Witness ==
    /\ stats.successful_scrapes >= 1
    /\ stats.failed_scrapes >= 2
    /\ errors_logged >= 1
    /\ Len(emitted) < fetch_count

(***************************************************************************)
(* C4: when a run completes without cancellation or error, the output of   *)
(* scrape_all is exactly the subsequence of the fetched records that the   *)
(* filter accepts, in fetch order, and Stats ends with total_processed =   *)
(* records fetched, successful_scrapes = accepted, failed_scrapes =        *)
(* rejected.                                                               *)
(***************************************************************************)
RunComplete ==
    /\ g_pc = "done"
    /\ errors_logged = 0
    /\ fetch_count = s_target_groups * GroupSize

C4_EndToEnd ==
    RunComplete =>
        /\ emitted = expected
        /\ stats.total_processed = fetch_count
        /\ stats.successful_scrapes = Len(expected)
        /\ stats.failed_scrapes = fetch_count - Len(expected)

(***************************************************************************)
(* C8: once stop() has set the running flag to false, no further record is *)
(* fetched, counted in Stats, handed to the auto-adder or emitted; every   *)
(* step of the generator takes it towards its end, never to another yield; *)
(* and when the stop calls have returned the transport is released and the *)
(* auto-adder is stopped.                                                  *)
(***************************************************************************)
Attempts(a) == a.success_count + a.failure_count

TowardsEnd ==
    \/ g_pc' = g_pc /\ g_group' >= g_group
    \/ g_pc = "none" /\ g_pc' = "group"
    \/ g_pc = "yielded" /\ g_pc' = "sleeping"
    \/ g_pc = "sleeping" /\ g_pc' = "loop"
    \/ g_pc = "loop" /\ g_pc' = "group" /\ g_group' = g_group + 1
    \/ g_pc = "group" /\ g_pc' = "done"

StoppedAndReleased ==
    (~s_running /\ \A c \in StopCallers : stop_call[c].pc = "idle") =>
        /\ s_session = "none"
        /\ s_auto_adder => (adder.session = "none" /\ ~adder.running)

C8_Cancellation ==
    [][ /\ ~s_running =>
             /\ fetch_count' = fetch_count
             /\ emitted' = emitted
             /\ stats'.total_processed = stats.total_processed
             /\ stats'.successful_scrapes = stats.successful_scrapes
             /\ stats'.failed_scrapes = stats.failed_scrapes
             /\ Attempts(adder') <= Attempts(adder)
             /\ TowardsEnd
        /\ StoppedAndReleased' ]_vars

\* a run cancelled between two records has ended and everything is released
C8_Witness ==
    /\ g_pc = "done"
    /\ ~s_running
    /\ errors_logged = 0
    /\ fetch_count >= 1
    /\ fetch_count < s_target_groups * GroupSize
    /\ s_auto_adder /\ adder.session = "none"
    /\ s_session = "none"
    /\ \A c \in StopCallers : stop_call[c].pc = "idle"

(***************************************************************************)
(* C9: when fetching a group raises an error, the error is logged,         *)
(* failed_scrapes and total_processed grow by exactly one, no further      *)
(* record of that group is emitted and scrape_all goes on to the next      *)
(* group; the failure never ends the run.                                  *)
(***************************************************************************)
C9_GroupErrorContinues ==
    [][ errors_logged' > errors_logged =>
          /\ errors_logged' = errors_logged + 1
          /\ stats'.failed_scrapes = stats.failed_scrapes + 1
          /\ stats'.total_processed = stats.total_processed + 1
          /\ emitted' = emitted
          /\ g_pc' = "group" /\ g_group' = g_group + 1 ]_vars

(***************************************************************************)
(* C2: one call of _make_request never issues more attempts than the       *)
(* configured retry_attempts, and issues exactly that many when every      *)
(* attempt fails (the call returns None).                                  *)
(***************************************************************************)
C2_RetryBound ==
    /\ r_attempts <= r_retry_attempts
    /\ (r_pc = "returned" /\ r_result = "None") =>
           r_attempts = r_retry_attempts

\* every attempt was sent on the open transport and failed
C2_Witness ==
    /\ r_pc = "returned" /\ r_result = "None"
    /\ r_retry_attempts >= 2
    /\ r_attempts = r_retry_attempts
    /\ r_after_stop = 0

(***************************************************************************)
(* C6: _make_request called while the engine's session is None (before     *)
(* start, or after stop) raises RuntimeError at once: no attempt is        *)
(* issued, no delay or backoff is waited, and the bandwidth counter, the   *)
(* Stats and the distribution counters are unchanged.                      *)
(***************************************************************************)
C6_LifecycleError ==
    [][ (r_pc = "idle" /\ r_pc' # "idle" /\ EngineSession = "none") =>
          /\ r_pc' = "raised"
          /\ r_result' = "RuntimeError"
          /\ r_attempts' = 0
          /\ r_after_stop' = 0
          /\ r_waits' = << >>
          /\ stats' = stats
          /\ adder' = adder ]_vars

\* the call was made on a scraper that had been started and stopped
C6_Witness ==
    /\ r_pc = "raised"
    /\ r_engine = "scraper"
    /\ s_session = "none"
    /\ stats.auto_add_stats # None

(***************************************************************************)
(* C7: a call of _make_request that has sent an attempt on the open        *)
(* transport issues no attempt on a session that stop has closed or        *)
(* cleared, and does not go on retrying there with the errors swallowed.   *)
(***************************************************************************)
C7_NoUseAfterStop == r_attempts > r_after_stop => r_after_stop = 0

(***************************************************************************)
(* C10: batch_add over n records returns total = n and successful + failed *)
(* = n, successful being the number of add_user calls that returned true,  *)
(* and the adder's success_count and failure_count have grown by exactly   *)
(* successful and failed.                                                  *)
(***************************************************************************)
C10_BatchSummary ==
    b_pc = "returned" =>
        LET summary == Val(b_summary) IN
        /\ summary.total = b_total
        /\ Len(b_results) = b_total
        /\ summary.successful + summary.failed = b_total
        /\ summary.successful =
               Cardinality({ k \in 1..Len(b_results) : b_results[k] })
        /\ adder.success_count = b_base.success_count + summary.successful
        /\ adder.failure_count = b_base.failure_count + summary.failed

\* five records, every add_user succeeded
C10_Witness ==
    /\ b_pc = "returned"
    /\ b_summary = Some(batch_summary(5, 5, 0))
    /\ adder.success_count = b_base.success_count + 5
    /\ adder.failure_count = b_base.failure_count

(***************************************************************************)
(* C11: a call of add_user or batch_add on an adder that is not started    *)
(* starts it: when the call has run, the adder's session is open and its   *)
(* running flag is set.                                                    *)
(***************************************************************************)
C11_LazyStart ==
    [][ (b_pc = "idle" /\ (Attempts(adder') > Attempts(adder) \/ b_pc' # "idle"))
            => (adder'.session = "open" /\ adder'.running) ]_vars

(***************************************************************************)
(* C12: an attempt whose response has status 200 makes _make_request       *)
(* return the payload at once, with no later attempt and no backoff wait;  *)
(* a call that has returned does nothing more.                             *)
(***************************************************************************)
ResponseStep == r_pc = "request" /\ r_pc' # "request"

ReturnsAtOnce ==
    /\ r_pc' = "returned"
    /\ r_result' = "payload"
    /\ r_attempts' = r_attempts
    /\ r_waits' = r_waits

StaysReturned ==
    r_pc = "returned" =>
        /\ r_pc' = "returned"
        /\ r_result' = r_result
        /\ r_attempts' = r_attempts
        /\ r_waits' = r_waits

C12_SuccessShortCircuit ==
    [][ /\ (ResponseStep /\ response_status(r_outcome') = 200) => ReturnsAtOnce
        /\ StaysReturned ]_vars

\* C12 as amended: the same for an attempt whose response has status 200 and
\* a body that is read and parsed without an exception
C12_ParsedShortCircuit ==
    [][ /\ (ResponseStep /\ r_outcome' = "ok") => ReturnsAtOnce
        /\ StaysReturned ]_vars

\* the first attempt succeeded and the attempts left were not made
C12_Witness ==
    /\ r_pc = "returned"
    /\ r_result = "payload"
    /\ r_outcome = "ok"
    /\ r_attempts = 1
    /\ r_retry_attempts = 2

(***************************************************************************)
(* The request engine under the scheduling the event loop gives it: every  *)
(* asyncio.sleep ends, and every request that was sent ends, with a        *)
(* response or with the timeout of the session's ClientTimeout.            *)
(***************************************************************************)
SpecReqLive ==
    /\ SpecReq
    /\ WF_vars(DelayDone)
    /\ WF_vars(ResponseArrives)
    /\ WF_vars(BackoffDone)

(***************************************************************************)
(* C13: a call of _make_request made with a session terminates; it raises  *)
(* nothing (only a call made without a session raises), and it returns     *)
(* None exactly when all retry_attempts attempts were made and none of     *)
(* them returned the payload.                                              *)
(***************************************************************************)
InCall == r_pc \in { "delay", "request", "backoff" }

C13_ReturnsNone ==
    /\ [][ r_pc' = "raised" =>
             \/ r_pc = "raised"
             \/ r_pc = "idle" /\ EngineSession = "none" ]_vars
    /\ [](r_pc = "returned" =>
             \/ r_result = "payload" /\ r_outcome = "ok"
             \/ r_result = "None" /\ r_attempts = r_retry_attempts)
    /\ (InCall ~> r_pc = "returned")

\* both attempts failed, one by a timeout and one by a transport error, the
\* session was open throughout, and the call returned None
C13_Witness ==
    /\ r_pc = "returned"
    /\ r_result = "None"
    /\ r_attempts = 2
    /\ r_after_stop = 0
    /\ r_outcome \in { "timeout", "error" }
    /\ EngineSession = "open"

(***************************************************************************)
(* C14: the records the consumer has received are in fetch order: group by *)
(* group in the configured order, within a group by loop index, and with   *)
(* strictly increasing fetch ordinals, so none is emitted twice.           *)
(***************************************************************************)
EmittedBefore(x, y) ==
    /\ x.uid < y.uid
    /\ \/ x.group < y.group
       \/ x.group = y.group /\ x.index < y.index

C14_EmissionOrder ==
    \A j, k \in 1..Len(emitted) : j < k => EmittedBefore(emitted[j], emitted[k])

\* records of both groups were emitted, two of them from the first group
C14_Witness ==
    /\ Len(emitted) >= 3
    /\ emitted[1].group = 1
    /\ emitted[2].group = 1
    /\ emitted[Len(emitted)].group = 2

(***************************************************************************)
(* C15: when a call of TelegramScraper.stop returns, the scraper's session *)
(* is closed and cleared, its running flag is false, and the auto-adder,   *)
(* if there is one, is stopped with its session closed and cleared and its *)
(* counters are the ones in stats.auto_add_stats.                          *)
(***************************************************************************)
StopReturns(c) ==
    \/ ScraperStopBegin(c) /\ stop_call'[c].pc = "idle"
    \/ stop_call[c].pc # "idle" /\ stop_call'[c].pc = "idle"

Stopped ==
    /\ s_session = "none"
    /\ ~s_running
    /\ s_auto_adder =>
         /\ adder.session = "none"
         /\ ~adder.running
         /\ stats.auto_add_stats = Some(adder_stats(adder))

\* no call of stop is in progress
NoStopInProgress == \A c \in StopCallers : stop_call[c].pc = "idle"

\* the pipeline as __main__.py drives it: start is called by __aenter__ and
\* by the first step of scrape_all, never while a stop call is suspended
StopNext ==
    \/ NoStopInProgress /\ ScraperStart
    \/ \E c \in StopCallers : ScraperStopBegin(c)
    \/ \E c \in StopCallers : ScraperStopClosed(c)
    \/ \E c \in StopCallers : ScraperStopAdderClosed(c)
    \/ NoStopInProgress /\ ScrapeAllBegin
    \/ ExtractEnter
    \/ LoopExit
    \/ FetchRaises
    \/ FetchAccepted
    \/ FetchRejected
    \/ ResumeAfterYield
    \/ SleepDone

SpecStop == Init /\ [][StopNext]_vars

C15_StopPostcondition ==
    [][ \A c \in StopCallers : StopReturns(c) => Stopped' ]_vars

\* a stop has returned on a scraper whose auto-adder had added records, while
\* its generator was in the middle of a group
C15_Witness ==
    /\ NoStopInProgress
    /\ Stopped
    /\ s_auto_adder
    /\ Attempts(adder) >= 1
    /\ g_pc \in { "yielded", "sleeping" }

(***************************************************************************)
(* A scraper on which the scrape and one _make_request call run side by    *)
(* side: every operation that writes Stats.                                *)
(***************************************************************************)
OpsInit ==
    /\ FilterIdle
    /\ ReaderIdle
    /\ SideIdle
    /\ BatchIdle
    /\ ReqInit
    /\ r_engine = "scraper"
    /\ r_retry_attempts = MaxRetries
    /\ r_stealth
    /\ r_delay = 0
    /\ s_filter_config =
         Some(FilterConfig(None, None, None, None, None, TRUE, FALSE))
    /\ s_target_groups = 1
    /\ s_auto_add \in BOOLEAN
    /\ s_start_time_set \in BOOLEAN
    /\ ScraperFresh

OpsNext ==
    \/ Next
    \/ ~Internal /\ MakeRequestCall
    \/ ~Internal /\ DelayDone
    \/ ~Internal /\ ResponseArrives
    \/ ~Internal /\ BackoffDone

SpecOps == OpsInit /\ [][OpsNext]_vars

(***************************************************************************)
(* C16: no step decreases total_processed, successful_scrapes,             *)
(* failed_scrapes or bandwidth_used; the three scrape counters change only *)
(* in the stretch of _extract_uids that calls _update_stats, and then the  *)
(* total and exactly one of successful and failed grow by one.             *)
(***************************************************************************)
ScrapeCounters(st) ==
    << st.total_processed, st.successful_scrapes, st.failed_scrapes >>

OneOutcome ==
    /\ stats'.total_processed = stats.total_processed + 1
    /\ \/ /\ stats'.successful_scrapes = stats.successful_scrapes + 1
          /\ stats'.failed_scrapes = stats.failed_scrapes
       \/ /\ stats'.successful_scrapes = stats.successful_scrapes
          /\ stats'.failed_scrapes = stats.failed_scrapes + 1

C16_MonotoneStats ==
    [][ /\ stats'.total_processed >= stats.total_processed
        /\ stats'.successful_scrapes >= stats.successful_scrapes
        /\ stats'.failed_scrapes >= stats.failed_scrapes
        /\ stats'.bandwidth_used >= stats.bandwidth_used
        /\ ScrapeCounters(stats') # ScrapeCounters(stats) =>
             (g_pc = "loop" /\ OneOutcome) ]_vars

\* records were counted both ways and response bodies were read
C16_Witness ==
    /\ stats.successful_scrapes >= 1
    /\ stats.failed_scrapes >= 1
    /\ stats.bandwidth_used >= 2

(***************************************************************************)
(* The readers of Stats.  A Stats handed to a reader is either the         *)
(* scraper's own object (live), whose fields the reader sees as they are   *)
(* when it looks, or values copied when it was handed over.                *)
(***************************************************************************)
\* TelegramScraper.get_stats: `return self.stats`, the object itself
get_stats(st) == [ live |-> TRUE, value |-> st ]

\* the values a reader finds in a Stats it was handed, when the scraper's
\* Stats object holds st
Seen(handed, st) == IF handed.live THEN st ELSE handed.value

\* DashboardServer.get_stats: the fields are read into the JSON response
\* right after the call of scraper.get_stats(), with no await in between
stats_response(handed, st) == [ live |-> FALSE, value |-> Seen(handed, st) ]

\* __main__.py: the consumer has received a record and calls
\* `await ui.update(uid, scraper.get_stats())`; ui.update keeps the Stats
\* it is given (`self._stats = stats`) and renders from it later
UiUpdate ==
    /\ g_pc = "yielded"
    /\ ui_stats' = Some(get_stats(stats))
    /\ UNCHANGED << filter_vars, d_response, side_vars, config_vars,
                    scraper_vars, adder,
                    stop_call, gen_vars, req_vars, a_stop_pc, batch_vars >>

\* a request for /api/stats is served
DashboardGetStats ==
    /\ ~Internal
    /\ d_response' = Some(stats_response(get_stats(stats), stats))
    /\ UNCHANGED << filter_vars, ui_stats, side_vars, config_vars,
                    scraper_vars, adder,
                    stop_call, gen_vars, req_vars, a_stop_pc, batch_vars >>

\* a scraper with its terminal UI and its dashboard
ReadersInit ==
    /\ FilterIdle
    /\ ReaderIdle
    /\ SideIdle
    /\ ReqIdle
    /\ BatchIdle
    /\ s_filter_config =
         Some(FilterConfig(None, None, None, None, None, TRUE, FALSE))
    /\ s_target_groups = 1
    /\ s_auto_add \in BOOLEAN
    /\ s_start_time_set \in BOOLEAN
    /\ ScraperFresh

ReadersNext ==
    \/ Next
    \/ UiUpdate
    \/ DashboardGetStats

SpecReaders == ReadersInit /\ [][ReadersNext]_vars

(***************************************************************************)
(* C17: the values a reader finds in a Stats it was handed by get_stats    *)
(* are, whenever it looks (at any point where the pipeline is suspended),  *)
(* the values of the moment it was handed over.                            *)
(***************************************************************************)
Unchanged(handed) ==
    ~IsNone(handed) => Seen(Val(handed), stats) = Val(handed).value

C17_SnapshotImmutable ==
    ~Internal => (Unchanged(ui_stats) /\ Unchanged(d_response))

(***************************************************************************)
(* C18: for a list of configs that set nothing but activity bounds, the    *)
(* filter built by create_composite_filter accepts a record iff its        *)
(* activity is at least every minimum set and at most every maximum set    *)
(* (so for {min 3} and {max 7} it rejects 2 and 8 and accepts 5); for the  *)
(* empty list it accepts every record.                                     *)
(***************************************************************************)
ActivityOnly(c) ==
    /\ IsNone(c.join_date_start)
    /\ IsNone(c.join_date_end)
    /\ IsNone(c.username_pattern)
    /\ ~c.exclude_banned
    /\ ~c.only_active

WithinAllBounds(configs, activity) ==
    \A k \in 1..Len(configs) :
      /\ ~IsNone(configs[k].min_activity_level) =>
            Val(configs[k].min_activity_level) <= activity
      /\ ~IsNone(configs[k].max_activity_level) =>
            activity <= Val(configs[k].max_activity_level)

C18_CompositeActivityBounds ==
    (f_pc = "done" /\ \A k \in 1..Len(f_configs) : ActivityOnly(f_configs[k]))
        => f_composite = Verdict(WithinAllBounds(f_configs, f_uid.activity_level))

(***************************************************************************)
(* C19: UIDFilter.matches accepts a record iff its activity is within the  *)
(* bounds that are set (inclusive), its join date is within the window     *)
(* bounds that are set (inclusive), a set pattern finds a non-empty        *)
(* username and matches at its start, exclude_banned does not meet status  *)
(* banned and only_active does not meet a status other than active.        *)
(***************************************************************************)
ActivityWithin(c, u) ==
    /\ c.min_activity_level # None => c.min_activity_level[1] <= u.activity_level
    /\ c.max_activity_level # None => u.activity_level <= c.max_activity_level[1]

JoinDateWithin(c, u) ==
    /\ c.join_date_start # None => c.join_date_start[1] <= u.join_date
    /\ c.join_date_end # None => u.join_date <= c.join_date_end[1]

UsernameFits(c, u) ==
    c.username_pattern # None =>
        /\ u.username # None
        /\ u.username[1] # << >>
        /\ Len(c.username_pattern[1]) <= Len(u.username[1])
        /\ \A k \in 1..Len(c.username_pattern[1]) :
             u.username[1][k] = c.username_pattern[1][k]

StatusAllowed(c, u) ==
    /\ ~(c.exclude_banned /\ u.status = "banned")
    /\ ~(c.only_active /\ u.status # "active")

C19_MatchesDefinition ==
    (f_matches # "unset") =>
        f_matches = Verdict(/\ ActivityWithin(f_configs[1], f_uid)
                            /\ JoinDateWithin(f_configs[1], f_uid)
                            /\ UsernameFits(f_configs[1], f_uid)
                            /\ StatusAllowed(f_configs[1], f_uid))

\* a record at both activity bounds and both ends of the window, accepted by
\* a config that sets every bound, a pattern and both flags
C19_Witness ==
    /\ f_matches = "True"
    /\ f_configs = << FilterConfig(Some(3), Some(7), Some(2), Some(2),
                                   Some(<<"a">>), TRUE, TRUE) >>
    /\ f_uid.activity_level \in { 3, 7 }

(***************************************************************************)
(* C20: a call of matches changes neither the record, nor the filter's     *)
(* config, nor Stats, nor any engine state, and a second call on the same  *)
(* record and config returns what the first returned.                      *)
(***************************************************************************)
MatchesStep == f_pc \in { "matches", "again" } /\ f_pc' # f_pc

EmissionStep == Len(emitted') = Len(emitted) + 1

RejectionStep == fetch_count' = fetch_count + 1 /\ emitted' = emitted

C21_AutoAddHandoff ==
    [][ /\ (EmissionStep /\ s_auto_adder) =>
             /\ stats'.successful_scrapes = stats.successful_scrapes + 1
             /\ Attempts(adder') = Attempts(adder) + 1
             /\ stats'.auto_add_stats = Some(adder_stats(adder'))
             /\ Attempts(adder') = stats'.successful_scrapes
        /\ RejectionStep => adder' = adder ]_vars

(***************************************************************************)
(* C22: batch_add adds the records one after another in list order; each   *)
(* add_user call, successful or not, is followed by exactly one wait of    *)
(* the invite delay, the next add begins only when that wait is over, and  *)
(* a batch of n records has waited n times when it returns.                *)
(***************************************************************************)
BatchAddStep == b_index' = b_index + 1

C22_BatchRateLimiter ==
    /\ [](/\ Len(b_results) = b_index
          /\ Len(b_waits) = b_index
          /\ \A k \in 1..Len(b_waits) :
               b_waits[k] = [ after |-> k, delay |-> "invite_delay" ]
          /\ b_pc = "returned" => Len(b_waits) = b_total)
    /\ [][ BatchAddStep =>
             /\ b_pc \in { "idle", "sleep" }
             /\ b_pc' = "sleep"
             /\ Attempts(adder') = Attempts(adder) + 1 ]_vars

\* a batch of three records with a failed and a successful add has returned
C22_Witness ==
    /\ b_pc = "returned"
    /\ b_total = 3
    /\ Len(b_waits) = 3
    /\ \E j, k \in 1..3 : b_results[j] /\ ~b_results[k]

(***************************************************************************)
(* C23: in the scraper's _make_request an attempt that ends with a         *)
(* response, of status 200 or not, has its body read and adds the body's   *)
(* length to bandwidth_used; an attempt that ends in a timeout or another  *)
(* exception before a body was read, and every other step of the call,     *)
(* leaves bandwidth_used as it is.                                         *)
(***************************************************************************)
C23_BandwidthPerBody ==
    [][ IF ResponseStep /\ r_engine = "scraper"
        THEN /\ response_status(r_outcome') # 0 => r_body' # None
             /\ r_outcome' \in { "timeout", "error" } => r_body' = None
             /\ stats'.bandwidth_used = stats.bandwidth_used +
                    (IF r_body' = None THEN 0 ELSE r_body'[1])
        ELSE stats'.bandwidth_used = stats.bandwidth_used ]_vars

\* a non-empty body of a response with a non-success status was counted
C23_Witness ==
    /\ r_engine = "scraper"
    /\ r_outcome = "status"
    /\ r_body = Some(1)
    /\ stats.bandwidth_used >= 1

(***************************************************************************)
(* C24: an attempt of _make_request, of either engine, that ends in a      *)
(* non-success status, a timeout or a transport error is followed at once  *)
(* by a backoff wait of 2^k seconds, k being the attempt's 0-based index,  *)
(* whatever the kind of failure; no attempt is sent before the backoff of  *)
(* every earlier attempt was waited, and the backoff waits of one call are *)
(* 1, 2, 4, ... seconds in attempt order.                                  *)
(***************************************************************************)
BackoffWaits == SelectSeq(r_waits, LAMBDA w : w.kind = "backoff")

FailedAttemptStep ==
    ResponseStep /\ r_outcome' \in { "status", "timeout", "error" }

C24_ExponentialBackoff ==
    /\ [][ FailedAttemptStep =>
             /\ r_pc' = "backoff"
             /\ r_waits' = Append(r_waits,
                                  [ kind |-> "backoff",
                                    attempt |-> r_attempt,
                                    seconds |-> [ num |-> 2 ^ r_attempt,
                                                  den |-> 1 ] ]) ]_vars
    /\ [][ r_attempts' = r_attempts + 1 =>
             Len(BackoffWaits) = r_attempts ]_vars
    /\ [](\A j \in 1..Len(BackoffWaits) :
            /\ BackoffWaits[j].attempt = j - 1
            /\ BackoffWaits[j].seconds = [ num |-> 2 ^ (j - 1), den |-> 1 ])

\* a third attempt failed and was followed by a backoff of four seconds
C24_Witness ==
    /\ r_pc = "backoff"
    /\ r_outcome \in { "status", "timeout", "error" }
    /\ Len(BackoffWaits) = 3
    /\ BackoffWaits[3].seconds = [ num |-> 4, den |-> 1 ]

(***************************************************************************)
(* C28: in the scraper's _make_request with stealth mode set every         *)
(* attempt, the first included, is preceded by exactly one delay d with    *)
(* request_delay <= d < 2 * request_delay; with stealth mode off no delay  *)
(* is waited and the backoff waits are the only waits of the call.         *)
(***************************************************************************)
DelayWaits == SelectSeq(r_waits, LAMBDA w : w.kind = "delay")

AttemptStep == r_attempts' = r_attempts + 1

Stealthy == r_engine = "scraper" /\ r_stealth

\* with stealth mode set, the j-th delay precedes the j-th attempt and no
\* attempt is made without the delay before it
OneDelayPerAttempt ==
    /\ [](Stealthy =>
            /\ Len(DelayWaits) = r_attempts + (IF r_pc = "delay" THEN 1 ELSE 0)
            /\ \A j \in 1..Len(DelayWaits) : DelayWaits[j].attempt = j - 1)
    /\ [][ (Stealthy /\ AttemptStep) => r_pc = "delay" ]_vars

\* request_delay <= d < 2 * request_delay
InDelayRange(d) ==
    /\ r_delay * d.den <= d.num
    /\ d.num < 2 * r_delay * d.den

NoDelayWithoutStealth ==
    []((r_engine = "scraper" /\ ~r_stealth) => DelayWaits = << >>)

C28_StealthDelay ==
    /\ OneDelayPerAttempt
    /\ [](Stealthy => \A j \in 1..Len(DelayWaits) :
                         InDelayRange(DelayWaits[j].seconds))
    /\ NoDelayWithoutStealth

(***************************************************************************)
(* C28, amended: with stealth mode set every attempt, the first included,  *)
(* is preceded by exactly one delay d = request_delay * (1 + u) with       *)
(* 0 <= u < 1: request_delay <= d < 2 * request_delay for a positive       *)
(* request_delay and d = 0 for a request_delay of zero; with stealth mode  *)
(* off no delay is waited and the backoff waits are the only waits.        *)
(***************************************************************************)
C28_StealthDelayScaled ==
    /\ OneDelayPerAttempt
    /\ [](Stealthy => \A j \in 1..Len(DelayWaits) :
                         IF r_delay > 0
                         THEN InDelayRange(DelayWaits[j].seconds)
                         ELSE DelayWaits[j].seconds.num = 0)
    /\ NoDelayWithoutStealth

\* two attempts were sent after delays of different lengths
C28_Witness ==
    /\ r_engine = "scraper"
    /\ r_stealth
    /\ r_delay > 0
    /\ r_attempts = 2
    /\ Len(DelayWaits) = 2
    /\ DelayWaits[1].seconds # DelayWaits[2].seconds

(***************************************************************************)
(* __main__.py: main, from the start of the dashboard on.  The terminal    *)
(* UI, the logger and the exporter are taken to work; no signal arrives.   *)
(* m_pc is "off" (no main), "setup" (before the dashboard is started),     *)
(* "enter" (before `async with scraper`), "iterating" (in the `async for`),*)
(* "stopping" (in __aexit__), "returned" or "raised".                      *)
(***************************************************************************)
\* a faulty start: a failure to bind is logged and the run goes on
after_setup_step_swallowed(ok, next) == next

\* where main goes after a step of its setup: on when the step succeeded,
\* and else by `except Exception: ... raise` to its caller
after_setup_step(ok, next) == IF ok THEN next ELSE "raised"

main_frame ==
    UNCHANGED << filter_vars, rate_vars, config_vars, req_vars, a_stop_pc,
                 batch_vars >>

\* `if dashboard_config.enabled: ... await dashboard.start()`: site.start()
\* binds the port or raises, and start logs and re-raises
MainDashboardStart ==
    /\ m_pc = "setup"
    /\ IF m_dashboard = "disabled"
       THEN m_pc' = "enter" /\ UNCHANGED << m_error, m_dashboard >>
       ELSE \E bound \in BOOLEAN :
              /\ m_pc' = after_setup_step(bound, "enter")
              /\ m_error' = IF bound THEN m_error ELSE "bind"
              /\ m_dashboard' = IF bound THEN "started" ELSE m_dashboard
    /\ UNCHANGED << reader_vars, dash_vars, scraper_vars, adder, stop_call,
                    gen_vars, m_scraped, m_exported >>
    /\ main_frame

\* `async with scraper`: __aenter__ calls start(), in which
\* aiohttp.ClientSession(...) returns the session or raises
MainEnter ==
    /\ m_pc = "enter"
    /\ \E acquired \in BOOLEAN :
         /\ m_pc' = after_setup_step(acquired, "iterating")
         /\ m_error' = IF acquired THEN m_error ELSE "transport"
         /\ IF acquired
            THEN start_effect
            ELSE UNCHANGED << s_session, s_running, s_auto_adder, adder,
                              stop_call >>
    /\ UNCHANGED << reader_vars, dash_vars, stats, gen_vars, m_scraped,
                    m_exported, m_dashboard >>
    /\ main_frame

\* the body of the `async for`: the record is appended to scraped_uids,
\* shown by the terminal UI and handed to the dashboard, if there is one
MainLoopBody ==
    /\ m_pc = "iterating"
    /\ g_pc = "yielded"
    /\ Len(m_scraped) < Len(emitted)
    /\ LET uid == emitted[Len(emitted)] IN
         /\ m_scraped' = Append(m_scraped, uid)
         /\ ui_stats' = Some(get_stats(stats))
         /\ IF m_dashboard = "started"
            THEN /\ d_added' = Append(d_added, uid)
                 /\ d_recent' = add_uid(d_recent, uid)
            ELSE UNCHANGED << d_added, d_recent >>
    /\ UNCHANGED << d_response, d_uids, scraper_vars, adder, stop_call,
                    gen_vars, m_pc, m_error, m_exported, m_dashboard >>
    /\ main_frame

\* the generator is exhausted or has raised: __aexit__ calls stop()
MainAexit ==
    /\ m_pc = "iterating"
    /\ g_pc \in { "done", "failed" }
    /\ stop_begin("aexit")
    /\ m_pc' = "stopping"
    /\ m_error' = IF g_pc = "failed" THEN "scrape" ELSE m_error
    /\ UNCHANGED << reader_vars, dash_vars, s_auto_adder, gen_vars, m_scraped,
                    m_exported, m_dashboard >>
    /\ main_frame

\* stop() has returned: an exception of the generator goes on to main's
\* caller; otherwise `if scraped_uids:` hands the list to the exporter
MainAfterStop ==
    /\ m_pc = "stopping"
    /\ stop_call["aexit"].pc = "idle"
    /\ IF m_error = "scrape"
       THEN m_pc' = "raised" /\ UNCHANGED m_exported
       ELSE /\ m_pc' = "returned"
            /\ m_exported' = IF m_scraped # << >>
                              THEN Append(m_exported, m_scraped)
                              ELSE m_exported
    /\ UNCHANGED << reader_vars, dash_vars, scraper_vars, adder, stop_call,
                    gen_vars, m_error, m_scraped, m_dashboard >>
    /\ main_frame

(***************************************************************************)
(* _update_stats called over and over on a scraper whose start_time was    *)
(* set, or was left None, with the clock read at each call.                *)
(***************************************************************************)
RateInit ==
    /\ FilterIdle
    /\ ReaderIdle
    /\ RateIdle
    /\ DashIdle
    /\ MainIdle
    /\ ReqIdle
    /\ BatchIdle
    /\ s_filter_config = None
    /\ s_target_groups \in TimedTargetCounts
    /\ s_auto_add = FALSE
    /\ s_start_time_set \in BOOLEAN
    /\ ScraperFresh

RateNext == UpdateStatsCall

SpecRate == RateInit /\ [][RateNext]_vars

(***************************************************************************)
(* C25: after every outcome _update_stats records at an elapsed time above *)
(* zero, current_rate is total_processed / elapsed and                     *)
(* estimated_time_remaining is (len(target_groups) - total_processed) /    *)
(* current_rate: 100 processed in 50 s give a rate of 2.0, and 200         *)
(* remaining then give an estimate of 100.0.  At an elapsed time of zero   *)
(* nothing is divided and the rate is left as it was, and as long as the   *)
(* rate is zero the estimate is zero.                                      *)
(***************************************************************************)
RecordedStep == t_stats'.total_processed = t_stats.total_processed + 1

Remaining == s_target_groups - t_stats.total_processed

\* f = dividend / divisor over the integers
IsQuotient(f, dividend, divisor) ==
    f.den > 0 /\ f.num * divisor = dividend * f.den

C25_RateAndEstimate ==
    /\ [][ RecordedStep =>
             IF t_elapsed' > 0
             THEN /\ IsQuotient(t_stats'.current_rate,
                                t_stats'.total_processed, t_elapsed')
                  /\ t_stats'.estimated_time_remaining.den > 0
                  /\ t_stats'.estimated_time_remaining.num *
                       t_stats'.current_rate.num =
                     Remaining' * t_stats'.current_rate.den *
                       t_stats'.estimated_time_remaining.den
             ELSE t_stats'.current_rate = t_stats.current_rate ]_vars
    /\ []((t_stats.total_processed = 100 /\ t_elapsed = 50) =>
            /\ t_stats.current_rate = [ num |-> 2, den |-> 1 ]
            /\ Remaining = 200 =>
                 t_stats.estimated_time_remaining = [ num |-> 100, den |-> 1 ])
    /\ [](t_stats.current_rate.num = 0 =>
            t_stats.estimated_time_remaining.num = 0)

\* 100 outcomes were recorded in 50 s with 200 of 300 targets remaining
C25_Witness ==
    /\ t_stats.total_processed = 100
    /\ t_elapsed = 50
    /\ Remaining = 200
    /\ t_stats.estimated_time_remaining = [ num |-> 100, den |-> 1 ]
    /\ t_stats.failed_scrapes > 0

(***************************************************************************)
(* One run of main: the dashboard is started if enabled, the scraper is    *)
(* entered, the records of scrape_all are consumed and exported.           *)
(***************************************************************************)
MainInit ==
    /\ FilterIdle
    /\ ReaderIdle
    /\ RateIdle
    /\ DashIdle
    /\ ReqIdle
    /\ BatchIdle
    /\ ScraperInit
    /\ m_pc = "setup"
    /\ m_error = "none"
    /\ m_scraped = << >>
    /\ m_exported = << >>
    /\ m_dashboard \in { "disabled", "enabled" }

MainNext ==
    \/ MainDashboardStart
    \/ MainEnter
    \/ m_pc = "iterating" /\ ScrapeAllBegin
    \/ ExtractEnter
    \/ LoopExit
    \/ FetchRaises
    \/ FetchAccepted
    \/ FetchRejected
    \/ MainLoopBody
    \/ Len(m_scraped) = Len(emitted) /\ ResumeAfterYield
    \/ SleepDone
    \/ MainAexit
    \/ ScraperStopClosed("aexit")
    \/ ScraperStopAdderClosed("aexit")
    \/ MainAfterStop

SpecMain == MainInit /\ [][MainNext]_vars

\* the dashboard's list on its own: records are added and the list is read
DashInit ==
    /\ FilterIdle
    /\ ReaderIdle
    /\ RateIdle
    /\ DashIdle
    /\ MainIdle
    /\ ScraperIdle
    /\ ReqIdle
    /\ BatchIdle

DashNext ==
    \/ AddUid
    \/ GetUids

SpecDash == DashInit /\ [][DashNext]_vars

(***************************************************************************)
(* C26: a run of main that got through its setup attempts every            *)
(* configured group, also when a group failed, and once the scraper has    *)
(* stopped it hands the records emitted so far to the exporter exactly     *)
(* once; the export is skipped only when no record was emitted.            *)
(***************************************************************************)
RunOver == m_pc \in { "returned", "raised" } /\ m_error \in { "none", "scrape" }

EveryGroupAttempted ==
    \/ g_group > s_target_groups
    \/ g_pc = "failed" /\ g_group = s_target_groups

C26_PartialResultsExported ==
    RunOver =>
        /\ EveryGroupAttempted
        /\ ~s_running /\ s_session = "none"
        /\ m_scraped = emitted
        /\ m_exported = IF emitted = << >> THEN << >> ELSE << emitted >>

(***************************************************************************)
(* C27: when the dashboard cannot bind or the scraper cannot acquire its   *)
(* transport, main raises to its caller and the run is over: no record is  *)
(* fetched, no outcome is recorded in Stats, nothing is handed to the      *)
(* auto-adder or the dashboard and nothing is exported, then or later.     *)
(***************************************************************************)
SetupFailed == m_error \in { "bind", "transport" }

C27_SetupFailureAborts ==
    SetupFailed =>
        /\ m_pc = "raised"
        /\ g_pc = "none"
        /\ fetch_count = 0
        /\ stats = NewStats
        /\ Attempts(adder) = 0
        /\ d_added = << >>
        /\ m_scraped = << >>
        /\ m_exported = << >>

\* the dashboard was started and the scraper then failed to start
C27_Witness ==
    /\ m_error = "transport"
    /\ m_dashboard = "started"
    /\ m_pc = "raised"

(***************************************************************************)
(* C29: after any sequence of add_uid calls the dashboard's recent list    *)
(* holds at most 100 records, the min(n, 100) most recent of the n records *)
(* added, newest first; get_uids with a limit L >= 0 returns the first     *)
(* min(L, length) entries of the list as it is when the request is served, *)
(* between any two add_uid calls.                                          *)
(***************************************************************************)
Smaller(a, b) == IF a < b THEN a ELSE b

C29_RecentListBounded ==
    /\ [](/\ Len(d_recent) <= 100
          /\ Len(d_recent) = Smaller(Len(d_added), 100)
          /\ \A k \in 1..Len(d_recent) :
               d_recent[k] = d_added[Len(d_added) - k + 1])
    /\ [][ d_uids' # d_uids =>
             LET response == d_uids'[1] IN
             response.limit >= 0 =>
               response.body =
                 SubSeq(d_recent, 1, Smaller(response.limit, Len(d_recent)))
         ]_vars

\* 102 records were added and a read with limit 101 returned the 100 kept
C29_Witness ==
    /\ Len(d_added) = 102
    /\ d_recent[1] = 102
    /\ d_recent[100] = 3
    /\ d_uids # None
    /\ d_uids[1].limit = 101
    /\ Len(d_uids[1].body) = 100

(***************************************************************************)
(* C30: in every state reached by any interleaving of start and stop calls *)
(* a true running flag of the scraper implies that its session is open     *)
(* (neither None nor closed), and the same holds for the auto-adder.       *)
(***************************************************************************)
C30_RunningImpliesSession ==
    /\ s_running => s_session = "open"
    /\ adder.running => adder.session = "open"

(***************************************************************************)
(* C31: start and stop are idempotent.  start called on a started scraper  *)
(* or auto-adder opens no session and creates no auto-adder; stop called   *)
(* when no session is open (a second time, while another stop is closing   *)
(* it, or before any start) closes nothing, and every stop that returns    *)
(* leaves the scraper and its auto-adder stopped without having touched    *)
(* the scrape counters.                                                    *)
(***************************************************************************)
AdderCounters(a) == << a.success_count, a.failure_count >>

StartIsIdempotent ==
    /\ [][ (ScraperStart /\ s_session = "open") =>
             UNCHANGED << s_session, s_running, s_auto_adder, adder, stats >>
         ]_vars
    /\ [](adder.session = "open" => adder_start(adder) = adder)

StopClosesOnce ==
    /\ [][ /\ s_session' = "closed" => s_session \in { "open", "closed" }
           /\ adder'.session = "closed" =>
                adder.session \in { "open", "closed" } ]_vars
    /\ [][ \A c \in StopCallers :
             (ScraperStopBegin(c) /\ s_session # "open") =>
                 /\ s_session' = "none"
                 /\ stop_call'[c].pc # "closing"
                 /\ ~s_running' ]_vars
    /\ [](adder.session # "open" =>
            /\ ~adder_stop_suspends(adder)
            /\ adder_stop_begin(adder).session = "none"
            /\ ~adder_stop_begin(adder).running
            /\ AdderCounters(adder_stop_begin(adder)) = AdderCounters(adder))

StopLeavesStopped ==
    [][ \A c \in StopCallers :
          /\ StopReturns(c) =>
               /\ s_session' = "none"
               /\ ~s_running'
               /\ s_auto_adder =>
                    adder'.session = "none" /\ ~adder'.running
          /\ (stop_call'[c] # stop_call[c] \/ ScraperStopBegin(c)) =>
               ScrapeCounters(stats') = ScrapeCounters(stats) ]_vars

C31_StartStopIdempotent ==
    /\ StartIsIdempotent
    /\ StopClosesOnce
    /\ StopLeavesStopped

\* the second stop found the session closed, cleared it and is stopping the
\* auto-adder while the first stop is still suspended in close()
C31_Witness ==
    /\ stop_call["shutdown"].pc = "closing"
    /\ stop_call["aexit"].pc = "adder_closing"
    /\ s_session = "none"
    /\ Attempts(adder) >= 1

(***************************************************************************)
(* C32: estimated_time_remaining is never negative: in every reachable     *)
(* state the remaining count _update_stats divides, the number of          *)
(* configured target groups minus total_processed, is at least zero.       *)
(***************************************************************************)
C32_EstimateNonNegative ==
    /\ Remaining >= 0
    /\ t_stats.estimated_time_remaining.num >= 0

(***************************************************************************)
(* C33: in _make_request of either engine every failed attempt, the last   *)
(* one allowed included, is followed by its backoff wait before the call   *)
(* returns: a call that exhausts its n attempts has waited exactly n       *)
(* backoffs, and it returns None only out of the backoff of 2^(n-1)        *)
(* seconds that follows the last failure.                                  *)
(***************************************************************************)
Exhausted == r_pc = "returned" /\ r_result = "None"

C33_BackoffAfterLastAttempt ==
    /\ [](Exhausted =>
            /\ r_attempts = r_retry_attempts
            /\ Len(BackoffWaits) = r_retry_attempts
            /\ r_retry_attempts > 0 =>
                 r_waits[Len(r_waits)] =
                     [ kind |-> "backoff",
                       attempt |-> r_retry_attempts - 1,
                       seconds |-> [ num |-> 2 ^ (r_retry_attempts - 1),
                                     den |-> 1 ] ])
    /\ [][ (Exhausted' /\ ~Exhausted /\ r_retry_attempts > 0) =>
             /\ r_pc = "backoff"
             /\ r_waits' = r_waits ]_vars

\* three attempts failed and the call returned None after the third backoff
C33_Witness ==
    /\ Exhausted
    /\ r_retry_attempts = 3
    /\ Len(BackoffWaits) = 3
    /\ r_waits[Len(r_waits)].seconds = [ num |-> 4, den |-> 1 ]

(***************************************************************************)
(* C34: the totals in stats.auto_add_stats (success_count, failure_count,  *)
(* total_attempts) never decrease, whatever the scraper is asked to do: a  *)
(* stop followed by a new start and further scraping included.             *)
(***************************************************************************)
C34_AutoAddTotalsMonotone ==
    [][ stats.auto_add_stats # None =>
          /\ stats'.auto_add_stats # None
          /\ LET before == stats.auto_add_stats[1]
                 after == stats'.auto_add_stats[1]
             IN  /\ after.success_count >= before.success_count
                 /\ after.failure_count >= before.failure_count
                 /\ after.total_attempts >= before.total_attempts ]_vars

====
